---- MODULE Spec2Model ----
(***************************************************************************)
(* Phoneme-level pronunciation scoring pipeline of english-assistant:      *)
(* PhonemeAligner (src/core/音素特征提取.py), PhonemeScorer                *)
(* (src/core/音素评分模块.py) and score_pronunciation                      *)
(* (src/core/发音评分模块.py).                                             *)
(*                                                                         *)
(* The pipeline is a stateless computation per call.  The state machine    *)
(* records the last entry point called (op), its arguments (args) and the  *)
(* value it returned (ret); each action is one call of one entry point     *)
(* with inputs drawn from small sets, made from the idle state: no entity  *)
(* survives a call, so a behaviour is one call.                            *)
(*                                                                         *)
(* Times are Python floats in the source; here they are exact rationals    *)
(* <<numerator, denominator>> in lowest terms, so equalities between times *)
(* are equalities of the real numbers the floats approximate.              *)
(*                                                                         *)
(* Phoneme symbols are IPA strings in the source; they are written here    *)
(* in ASCII:  ae=æ  ih=ɪ  uh=ʊ  ii=iː  uu=uː  er=ɜː  ah=ʌ  ai=aɪ  au=aʊ    *)
(* oi=ɔɪ  e=e  o=ɒ  aa=ɑː  th=θ  dh=ð  sh=ʃ  zh=ʒ  ch=tʃ  dj=dʒ  ng=ŋ      *)
(* schwa=ə  oo=ɔː  ei=eɪ  ou=əʊ; the other symbols are their own letters.  *)
(***************************************************************************)
EXTENDS Integers, Sequences, FiniteSets, TLC

VARIABLES op, args, ret

vars == <<op, args, ret>>

(***************************************************************************)
(* Bounds of the model.                                                    *)
(***************************************************************************)
MaxPhonemes == 3      \* longest enumerated phoneme sequence
MaxFrames == 4        \* most RMS frames of an audio buffer given to energy_based_alignment

(***************************************************************************)
(* Exact rational arithmetic standing for float arithmetic.                *)
(***************************************************************************)
Abs(n) == IF n < 0 THEN -n ELSE n

RECURSIVE GCD(_, _)
GCD(a, b) == IF b = 0 THEN a ELSE GCD(b, a % b)

\* the rational n/d (d # 0) in lowest terms with a positive denominator
Q(n, d) ==
    LET s == IF d < 0 THEN -1 ELSE 1
        g == GCD(Abs(n), Abs(d))
    IN  <<(s * n) \div g, (s * d) \div g>>

QInt(n) == <<n, 1>>

QAdd(a, b) ==
    LET g == GCD(a[2], b[2])
    IN  Q(a[1] * (b[2] \div g) + b[1] * (a[2] \div g), (a[2] \div g) * b[2])

QSub(a, b) == QAdd(a, <<-b[1], b[2]>>)

QMul(a, b) ==
    LET g1 == GCD(Abs(a[1]), b[2])
        g2 == GCD(Abs(b[1]), a[2])
    IN  Q((a[1] \div g1) * (b[1] \div g2), (a[2] \div g2) * (b[2] \div g1))

QDiv(a, b) == QMul(a, Q(b[2], b[1]))

QLt(a, b) == a[1] * b[2] < b[1] * a[2]

QLe(a, b) == a[1] * b[2] <= b[1] * a[2]

QMax(a, b) == IF QLt(a, b) THEN b ELSE a

QMin(a, b) == IF QLt(b, a) THEN b ELSE a

(***************************************************************************)
(* Inputs.                                                                 *)
(***************************************************************************)
\* phoneme symbols given to the aligners: ð ə k æ t
AlignPhonemes == {"dh", "schwa", "k", "ae", "t"}

\* text_to_phonemes("the cat") = [ð, ə, k, æ, t]
TheCat == <<"dh", "schwa", "k", "ae", "t">>

SeqsUpTo(S, n) == UNION {[1..k -> S] : k \in 0..n}

PhonemeSeqs == SeqsUpTo(AlignPhonemes, MaxPhonemes) \cup {TheCat}

\* audio lengths in samples: empty, 10 ms, 100 ms, 1 s and 10 s at 16 kHz
AudioLengths == {0, 160, 1600, 16000, 160000}

SampleRates == {8000, 16000}

(***************************************************************************)
(* PhonemeAligner.simple_uniform_alignment                                 *)
(***************************************************************************)
Segment(phoneme, start_time, end_time) ==
    [phoneme |-> phoneme, start_time |-> start_time, end_time |-> end_time]

\* a plausible slip: the spans are sized for one phoneme more than there are
simple_uniform_alignment_short(audio_length, phoneme_sequence, sr) ==
    LET total_duration == Q(audio_length, sr)
        phoneme_count == Len(phoneme_sequence)
        avg_duration == QDiv(total_duration, QInt(phoneme_count + 1))
    IN  IF phoneme_count = 0 THEN <<>>
        ELSE [i \in 1..phoneme_count |->
                Segment(phoneme_sequence[i],
                        QMul(QInt(i - 1), avg_duration),
                        QMul(QInt(i), avg_duration))]

simple_uniform_alignment(audio_length, phoneme_sequence, sr) ==
    LET total_duration == Q(audio_length, sr)
        phoneme_count == Len(phoneme_sequence)
    IN  IF phoneme_count = 0 THEN <<>>
        ELSE LET avg_duration == QDiv(total_duration, QInt(phoneme_count))
             IN  [i \in 1..phoneme_count |->
                     Segment(phoneme_sequence[i],
                             QMul(QInt(i - 1), avg_duration),
                             QMul(QInt(i), avg_duration))]

(***************************************************************************)
(* PhonemeAligner.duration_weighted_alignment                              *)
(***************************************************************************)
\* PhonemeAligner.__init__: per-phoneme duration bound, in seconds
min_phoneme_duration == Q(3, 100)

max_phoneme_duration == Q(4, 10)

\* duration_weights.get(ph, 1.0)
DurationWeight(ph) ==
    CASE ph = "ae" -> Q(12, 10) [] ph = "ih" -> Q(10, 10) [] ph = "uh" -> Q(10, 10)
      [] ph = "ii" -> Q(15, 10) [] ph = "uu" -> Q(15, 10) [] ph = "er" -> Q(18, 10)
      [] ph = "ah" -> Q(11, 10) [] ph = "ai" -> Q(13, 10) [] ph = "au" -> Q(13, 10)
      [] ph = "oi" -> Q(13, 10) [] ph = "e" -> Q(11, 10) [] ph = "o" -> Q(11, 10)
      [] ph = "p" -> Q(6, 10) [] ph = "b" -> Q(7, 10) [] ph = "t" -> Q(6, 10)
      [] ph = "d" -> Q(7, 10) [] ph = "k" -> Q(6, 10) [] ph = "g" -> Q(7, 10)
      [] ph = "f" -> Q(9, 10) [] ph = "v" -> Q(8, 10) [] ph = "th" -> Q(8, 10)
      [] ph = "dh" -> Q(7, 10) [] ph = "s" -> Q(9, 10) [] ph = "z" -> Q(8, 10)
      [] ph = "sh" -> Q(9, 10) [] ph = "zh" -> Q(8, 10) [] ph = "ch" -> Q(8, 10)
      [] ph = "dj" -> Q(8, 10) [] ph = "m" -> Q(8, 10) [] ph = "n" -> Q(8, 10)
      [] ph = "ng" -> Q(8, 10) [] ph = "l" -> Q(8, 10) [] ph = "r" -> Q(8, 10)
      [] ph = "w" -> Q(7, 10) [] ph = "j" -> Q(6, 10) [] ph = "h" -> Q(5, 10)
      [] OTHER -> Q(10, 10)

\* the sum of the first k entries of a sequence of rationals
RECURSIVE QSumTo(_, _)
QSumTo(f, k) == IF k = 0 THEN QInt(0) ELSE QAdd(QSumTo(f, k - 1), f[k])

\* a plausible slip: the lower bound of the clamp is forgotten
ClampDuration_no_floor(duration) == QMin(max_phoneme_duration, duration)

\* max(self.min_phoneme_duration, min(self.max_phoneme_duration, duration))
ClampDuration(duration) ==
    QMax(min_phoneme_duration, QMin(max_phoneme_duration, duration))

duration_weighted_alignment(audio_length, phoneme_sequence, sr) ==
    LET total_duration == Q(audio_length, sr)
        phoneme_count == Len(phoneme_sequence)
        weights == [i \in 1..phoneme_count |-> DurationWeight(phoneme_sequence[i])]
        total_weight == QSumTo(weights, phoneme_count)
        durations == [i \in 1..phoneme_count |->
                         ClampDuration(QMul(QDiv(weights[i], total_weight), total_duration))]
    IN  IF phoneme_count = 0 THEN <<>>
        ELSE [i \in 1..phoneme_count |->
                 \* current_time is the sum of the durations already laid out
                 LET current_time == QSumTo(durations, i - 1)
                 IN  Segment(phoneme_sequence[i], current_time,
                             QAdd(current_time, durations[i]))]

(***************************************************************************)
(* PhonemeAligner.energy_based_alignment                                   *)
(*                                                                         *)
(* The signal processing (librosa RMS, Gaussian smoothing, thresholded     *)
(* difference) is an input: change_points is the increasing list of frame  *)
(* indices np.where returns, any subset of the indices of diff, and raises *)
(* says whether a step inside the try block threw.                         *)
(***************************************************************************)
hop_length == 512

\* librosa.feature.rms, centred frames: 1 + len(audio) // hop_length frames;
\* diff has one entry fewer
DiffLength(audio_length) == audio_length \div hop_length

\* the increasing sequence of the elements of a set of naturals
RECURSIVE SortedSeq(_)
SortedSeq(S) ==
    IF S = {} THEN <<>>
    ELSE LET m == CHOOSE x \in S : \A y \in S : y <= x
         IN  Append(SortedSeq(S \ {m}), m)

\* np.linspace(0, stop, num, dtype=int), as 1-based positions' values
Linspace(stop, num) ==
    IF num = 0 THEN <<>>
    ELSE IF num = 1 THEN <<0>>
    ELSE [i \in 1..num |-> ((i - 1) * stop) \div (num - 1)]

\* the fallback test: fewer change points than boundaries needed
TooFewChangePoints(change_times, phoneme_count) ==
    Len(change_times) < phoneme_count - 1

energy_based_alignment(audio_length, change_points, raises, phoneme_sequence, sr) ==
    LET time_per_frame == Q(hop_length, sr)
        cps == SortedSeq(change_points)
        change_times == [i \in 1..Len(cps) |-> QMul(QInt(cps[i]), time_per_frame)]
        total_duration == Q(audio_length, sr)
        phoneme_count == Len(phoneme_sequence)
    IN  IF raises THEN simple_uniform_alignment(audio_length, phoneme_sequence, sr)
        ELSE IF phoneme_count = 0 THEN <<>>
        ELSE IF TooFewChangePoints(change_times, phoneme_count)
             THEN simple_uniform_alignment(audio_length, phoneme_sequence, sr)
        ELSE LET selected_points ==
                     IF Len(change_times) > 0
                     THEN Linspace(Len(change_times) - 1, phoneme_count - 1)
                     ELSE <<>>
                 segment_times ==
                     <<QInt(0)>>
                     \o [i \in 1..Len(selected_points) |->
                            change_times[selected_points[i] + 1]]
                     \o <<total_duration>>
             IN  [i \in 1..phoneme_count |->
                     Segment(phoneme_sequence[i], segment_times[i], segment_times[i + 1])]

\* phoneme sequences given to energy_based_alignment
EnergyPhonemeSeqs == SeqsUpTo({"k", "ae"}, MaxPhonemes)

\* buffers of 0 .. MaxFrames hops, whole and half hops
EnergyAudioLengths == {256 * k : k \in 0..(2 * MaxFrames)}

(***************************************************************************)
(* PhonemeScorer.score_phoneme_quality                                     *)
(*                                                                         *)
(* A feature mapping is a function whose DOMAIN is the set of keys the     *)
(* Python dict holds; its values are rationals.  The key mfcc_mean holds   *)
(* np.std(features['mfcc_mean']), the only use the scorer makes of it.     *)
(* An issue is the message template (kind) and the phoneme it names.       *)
(***************************************************************************)
Issue(kind, phoneme) == [kind |-> kind, phoneme |-> phoneme]

\* PhonemeScorer._load_duration_thresholds: phoneme -> (min, max) seconds
duration_thresholds ==
    [ae |-> <<Q(8, 100), Q(15, 100)>>, ih |-> <<Q(6, 100), Q(12, 100)>>,
     uh |-> <<Q(6, 100), Q(12, 100)>>, ii |-> <<Q(10, 100), Q(20, 100)>>,
     uu |-> <<Q(10, 100), Q(20, 100)>>, er |-> <<Q(12, 100), Q(25, 100)>>,
     p |-> <<Q(2, 100), Q(8, 100)>>, b |-> <<Q(3, 100), Q(10, 100)>>,
     t |-> <<Q(2, 100), Q(8, 100)>>, d |-> <<Q(3, 100), Q(10, 100)>>,
     k |-> <<Q(2, 100), Q(8, 100)>>, g |-> <<Q(3, 100), Q(10, 100)>>,
     f |-> <<Q(8, 100), Q(15, 100)>>, v |-> <<Q(6, 100), Q(12, 100)>>,
     s |-> <<Q(8, 100), Q(18, 100)>>, z |-> <<Q(6, 100), Q(15, 100)>>,
     sh |-> <<Q(8, 100), Q(16, 100)>>, zh |-> <<Q(6, 100), Q(14, 100)>>]

\* one rule's outcome: points deducted and the issues appended
Outcome(deduct, issues) == [deduct |-> deduct, issues |-> issues]

NoDeduction == Outcome(0, <<>>)

\* a plausible slip: the near tiers are tested first, so the far tiers are
\* never reached
DurationOutcome_near_first(phoneme, duration, min_dur, max_dur) ==
    IF QLt(duration, min_dur)
    THEN Outcome(20, <<Issue("duration_short", phoneme)>>)
    ELSE IF QLt(duration, QMul(min_dur, Q(7, 10)))
    THEN Outcome(30, <<Issue("duration_far_too_short", phoneme)>>)
    ELSE IF QLt(max_dur, duration)
    THEN Outcome(15, <<Issue("duration_long", phoneme)>>)
    ELSE IF QLt(QMul(max_dur, Q(15, 10)), duration)
    THEN Outcome(25, <<Issue("duration_far_too_long", phoneme)>>)
    ELSE NoDeduction

\* the branches on min_dur, max_dur = self.duration_thresholds[phoneme]
DurationOutcome(phoneme, duration, min_dur, max_dur) ==
    IF QLt(duration, QMul(min_dur, Q(7, 10)))
    THEN Outcome(30, <<Issue("duration_far_too_short", phoneme)>>)
    ELSE IF QLt(duration, min_dur)
    THEN Outcome(20, <<Issue("duration_short", phoneme)>>)
    ELSE IF QLt(QMul(max_dur, Q(15, 10)), duration)
    THEN Outcome(25, <<Issue("duration_far_too_long", phoneme)>>)
    ELSE IF QLt(max_dur, duration)
    THEN Outcome(15, <<Issue("duration_long", phoneme)>>)
    ELSE NoDeduction

DurationRule(phoneme, duration) ==
    IF phoneme \in DOMAIN duration_thresholds
    THEN DurationOutcome(phoneme, duration,
                         duration_thresholds[phoneme][1], duration_thresholds[phoneme][2])
    ELSE NoDeduction

StabilityRule(phoneme, features) ==
    IF "mfcc_mean" \in DOMAIN features
    THEN LET mfcc_stability == features["mfcc_mean"]
         IN  IF QLt(QInt(30), mfcc_stability)
             THEN Outcome(20, <<Issue("unstable", phoneme)>>)
             ELSE IF QLt(QInt(20), mfcc_stability)
             THEN Outcome(10, <<Issue("slightly_unstable", phoneme)>>)
             ELSE NoDeduction
    ELSE NoDeduction

EnergyRule(phoneme, features) ==
    IF "energy_mean" \in DOMAIN features
    THEN IF QLt(features["energy_mean"], Q(5, 1000))
         THEN Outcome(25, <<Issue("energy_insufficient", phoneme)>>)
         ELSE IF QLt(features["energy_mean"], Q(1, 100))
         THEN Outcome(15, <<Issue("energy_low", phoneme)>>)
         ELSE NoDeduction
    ELSE NoDeduction

\* a plausible slip: the rule is applied to the sibilants only
CentroidRule_sibilants_only(phoneme, features) ==
    IF "spectral_centroid_mean" \in DOMAIN features
    THEN LET c == features["spectral_centroid_mean"]
         IN  IF phoneme \in {"s", "sh"}
             THEN IF QLt(c, QInt(2500))
                  THEN Outcome(20, <<Issue("high_frequency_deficient", phoneme)>>)
                  ELSE NoDeduction
             ELSE IF phoneme \in {"ae", "aa", "o"}
             THEN IF QLt(QInt(1500), c)
                  THEN Outcome(15, <<Issue("low_vowel_timbre_high", phoneme)>>)
                  ELSE NoDeduction
             ELSE IF phoneme \in {"ii", "ih"}
             THEN IF QLt(c, QInt(1000)) \/ QLt(QInt(2200), c)
                  THEN Outcome(15, <<Issue("high_vowel_tongue_inaccurate", phoneme)>>)
                  ELSE NoDeduction
             ELSE NoDeduction
    ELSE NoDeduction

CentroidRule(phoneme, features) ==
    IF "spectral_centroid_mean" \in DOMAIN features
    THEN LET c == features["spectral_centroid_mean"]
         IN  IF phoneme \in {"s", "sh", "f", "th"}
             THEN IF QLt(c, QInt(2500))
                  THEN Outcome(20, <<Issue("high_frequency_deficient", phoneme)>>)
                  ELSE NoDeduction
             ELSE IF phoneme \in {"ae", "aa", "o"}
             THEN IF QLt(QInt(1500), c)
                  THEN Outcome(15, <<Issue("low_vowel_timbre_high", phoneme)>>)
                  ELSE NoDeduction
             ELSE IF phoneme \in {"ii", "ih"}
             THEN IF QLt(c, QInt(1000)) \/ QLt(QInt(2200), c)
                  THEN Outcome(15, <<Issue("high_vowel_tongue_inaccurate", phoneme)>>)
                  ELSE NoDeduction
             ELSE NoDeduction
    ELSE NoDeduction

\* a plausible slip: a symbol outside the tables falls into a fricative class
classify_phoneme_detailed_default_sibilant(phoneme) ==
    LET vowels == {"ae", "ih", "uh", "ii", "uu", "er", "ah", "ai", "au", "oi", "e", "o", "aa"}
        fricatives == {"f", "v", "s", "z", "sh", "zh", "th", "dh", "h"}
        stops == {"p", "b", "t", "d", "k", "g"}
        affricates == {"ch", "dj"}
        nasals == {"m", "n", "ng"}
        liquids == {"l", "r"}
        glides == {"w", "j"}
    IN  IF phoneme \in vowels
        THEN IF phoneme \in {"ae", "aa", "o"} THEN "low_vowel"
             ELSE IF phoneme \in {"ii", "ih", "uu", "uh"} THEN "high_vowel"
             ELSE IF phoneme \in {"e", "er", "ah"} THEN "mid_vowel"
             ELSE "diphthong"
        ELSE IF phoneme \in fricatives
        THEN IF phoneme \in {"s", "z", "sh", "zh"} THEN "sibilant_fricative"
             ELSE "non_sibilant_fricative"
        ELSE IF phoneme \in stops
        THEN IF phoneme \in {"p", "t", "k"} THEN "voiceless_stop" ELSE "voiced_stop"
        ELSE IF phoneme \in affricates THEN "affricate"
        ELSE IF phoneme \in nasals THEN "nasal"
        ELSE IF phoneme \in liquids THEN "liquid"
        ELSE IF phoneme \in glides THEN "glide"
        ELSE "sibilant_fricative"

classify_phoneme_detailed(phoneme) ==
    LET vowels == {"ae", "ih", "uh", "ii", "uu", "er", "ah", "ai", "au", "oi", "e", "o", "aa"}
        fricatives == {"f", "v", "s", "z", "sh", "zh", "th", "dh", "h"}
        stops == {"p", "b", "t", "d", "k", "g"}
        affricates == {"ch", "dj"}
        nasals == {"m", "n", "ng"}
        liquids == {"l", "r"}
        glides == {"w", "j"}
    IN  IF phoneme \in vowels
        THEN IF phoneme \in {"ae", "aa", "o"} THEN "low_vowel"
             ELSE IF phoneme \in {"ii", "ih", "uu", "uh"} THEN "high_vowel"
             ELSE IF phoneme \in {"e", "er", "ah"} THEN "mid_vowel"
             ELSE "diphthong"
        ELSE IF phoneme \in fricatives
        THEN IF phoneme \in {"s", "z", "sh", "zh"} THEN "sibilant_fricative"
             ELSE "non_sibilant_fricative"
        ELSE IF phoneme \in stops
        THEN IF phoneme \in {"p", "t", "k"} THEN "voiceless_stop" ELSE "voiced_stop"
        ELSE IF phoneme \in affricates THEN "affricate"
        ELSE IF phoneme \in nasals THEN "nasal"
        ELSE IF phoneme \in liquids THEN "liquid"
        ELSE IF phoneme \in glides THEN "glide"
        ELSE "unknown"

check_phoneme_type_quality(phoneme, phoneme_type, features, duration) ==
    LET has(k) == k \in DOMAIN features
        f1_positive == has("f1") /\ QLt(QInt(0), features["f1"])
    IN  IF phoneme_type = "low_vowel"
        THEN IF f1_positive /\ QLt(features["f1"], QInt(600))
             THEN <<Issue("low_vowel_opening", phoneme)>> ELSE <<>>
        ELSE IF phoneme_type = "high_vowel"
        THEN IF f1_positive /\ QLt(QInt(450), features["f1"])
             THEN <<Issue("high_vowel_tongue_low", phoneme)>> ELSE <<>>
        ELSE IF phoneme_type = "sibilant_fricative"
        THEN IF has("zcr_mean") /\ QLt(features["zcr_mean"], Q(15, 100))
             THEN <<Issue("sibilant_friction_weak", phoneme)>> ELSE <<>>
        ELSE IF phoneme_type = "voiceless_stop"
        THEN IF /\ has("energy_max") /\ has("energy_mean")
                /\ QLt(QInt(0), features["energy_mean"])
                /\ QLt(QDiv(features["energy_max"], features["energy_mean"]), Q(25, 10))
             THEN <<Issue("stop_burst_weak", phoneme)>> ELSE <<>>
        ELSE IF phoneme_type = "voiced_stop"
        THEN IF has("voicing_rate") /\ QLt(features["voicing_rate"], Q(6, 10))
             THEN <<Issue("voiced_stop_voicing_weak", phoneme)>> ELSE <<>>
        ELSE IF phoneme_type = "nasal"
        THEN IF f1_positive /\ QLt(QInt(500), features["f1"])
             THEN <<Issue("nasal_resonance_weak", phoneme)>> ELSE <<>>
        ELSE <<>>

\* a plausible slip: the lower clamp on the score is forgotten
ClampScore_no_floor(score) == IF score > 100 THEN 100 ELSE score

\* max(0, min(100, score))
ClampScore(score) ==
    LET capped == IF score > 100 THEN 100 ELSE score
    IN  IF capped < 0 THEN 0 ELSE capped

\* returns the pair (score, issues); the score is a whole number of points
\* score starts at 80; the four rules and the type issues (8 points each)
\* are taken off it, and the issues are appended in that order
\* a plausible slip: the deductions start from 100
ScoreAndIssues_base_100(dur, stab, en, cen, type_issues) ==
    [score |-> ClampScore(100 - dur.deduct - stab.deduct - en.deduct - cen.deduct
                              - Len(type_issues) * 8),
     issues |-> dur.issues \o stab.issues \o en.issues \o cen.issues \o type_issues]

ScoreAndIssues(dur, stab, en, cen, type_issues) ==
    [score |-> ClampScore(80 - dur.deduct - stab.deduct - en.deduct - cen.deduct
                             - Len(type_issues) * 8),
     issues |-> dur.issues \o stab.issues \o en.issues \o cen.issues \o type_issues]

score_phoneme_quality(phoneme, features, duration) ==
    ScoreAndIssues(
        DurationRule(phoneme, duration), StabilityRule(phoneme, features),
        EnergyRule(phoneme, features), CentroidRule(phoneme, features),
        check_phoneme_type_quality(phoneme, classify_phoneme_detailed(phoneme),
                                   features, duration))

(***************************************************************************)
(* PhonemeScorer.get_quality_level                                         *)
(***************************************************************************)
\* a plausible slip: the good and fair breakpoints are exchanged
get_quality_level_swapped(score) ==
    IF QLe(QInt(90), score) THEN "excellent"
    ELSE IF QLe(QInt(60), score) THEN "good"
    ELSE IF QLe(QInt(75), score) THEN "fair"
    ELSE "poor"

get_quality_level(score) ==
    IF QLe(QInt(90), score) THEN "excellent"
    ELSE IF QLe(QInt(75), score) THEN "good"
    ELSE IF QLe(QInt(60), score) THEN "fair"
    ELSE "poor"

\* scores probed: each breakpoint, half a point either side, and the
\* scores 95, 80, 65, 10 of the specification's scenario
ScoreProbes ==
    {Q(k, 2) : k \in {-2, 0, 20, 119, 120, 121, 130, 149, 150, 151, 160,
                      179, 180, 181, 190, 200, 202}}

(***************************************************************************)
(* PhonemeScorer.text_to_phonemes and map_words_to_phonemes                *)
(*                                                                         *)
(* A text is the list of its whitespace-separated tokens (what split()     *)
(* returns before lower-casing); a token is the list of its characters.    *)
(***************************************************************************)
\* PhonemeScorer._load_phoneme_map
phoneme_map ==
    [a |-> "ae", e |-> "e", i |-> "ih", o |-> "o", u |-> "uh", ah |-> "ah", ay |-> "ai", aw |-> "au", oy |-> "oi", ee |-> "ii", oo |-> "uu", er |-> "er", ar |-> "aa", p |-> "p", b |-> "b", t |-> "t", d |-> "d", k |-> "k", g |-> "g", f |-> "f", v |-> "v", th |-> "th", dh |-> "dh", s |-> "s", z |-> "z", sh |-> "sh", zh |-> "zh", ch |-> "ch", j |-> "dj", m |-> "m", n |-> "n", ng |-> "ng", l |-> "l", r |-> "r", w |-> "w", y |-> "j", h |-> "h"]

\* phoneme_rules of text_to_phonemes: <<word, phonemes>>
text_phoneme_rules ==
    {<<<<"t", "h", "e">>, <<"dh", "schwa">>>>,
     <<<<"a", "n", "d">>, <<"ae", "n", "d">>>>,
     <<<<"h", "a", "v", "e">>, <<"h", "ae", "v">>>>,
     <<<<"t", "h", "a", "t">>, <<"dh", "ae", "t">>>>,
     <<<<"f", "o", "r">>, <<"f", "oo">>>>,
     <<<<"a", "r", "e">>, <<"aa">>>>,
     <<<<"w", "i", "t", "h">>, <<"w", "ih", "th">>>>,
     <<<<"h", "i", "s">>, <<"h", "ih", "z">>>>,
     <<<<"t", "h", "e", "y">>, <<"dh", "ei">>>>,
     <<<<"t", "h", "i", "s">>, <<"dh", "ih", "s">>>>,
     <<<<"f", "r", "o", "m">>, <<"f", "r", "o", "m">>>>,
     <<<<"s", "h", "e">>, <<"sh", "ii">>>>,
     <<<<"h", "e", "r">>, <<"h", "er">>>>,
     <<<<"b", "e", "e", "n">>, <<"b", "ii", "n">>>>,
     <<<<"t", "h", "a", "n">>, <<"dh", "ae", "n">>>>,
     <<<<"i", "t", "s">>, <<"ih", "t", "s">>>>,
     <<<<"n", "o", "w">>, <<"n", "au">>>>,
     <<<<"m", "o", "r", "e">>, <<"m", "oo">>>>,
     <<<<"v", "e", "r", "y">>, <<"v", "e", "r", "ih">>>>,
     <<<<"w", "h", "a", "t">>, <<"w", "o", "t">>>>,
     <<<<"k", "n", "o", "w">>, <<"n", "ou">>>>,
     <<<<"j", "u", "s", "t">>, <<"dj", "ah", "s", "t">>>>,
     <<<<"f", "i", "r", "s", "t">>, <<"f", "er", "s", "t">>>>,
     <<<<"t", "i", "m", "e">>, <<"t", "ai", "m">>>>,
     <<<<"p", "e", "o", "p", "l", "e">>, <<"p", "ii", "p", "schwa", "l">>>>}

\* phoneme_rules of map_words_to_phonemes: <<word, phonemes>>
word_phoneme_rules ==
    {<<<<"t", "h", "e">>, <<"dh", "schwa">>>>,
     <<<<"a", "n", "d">>, <<"ae", "n", "d">>>>,
     <<<<"h", "a", "v", "e">>, <<"h", "ae", "v">>>>,
     <<<<"t", "h", "a", "t">>, <<"dh", "ae", "t">>>>,
     <<<<"f", "o", "r">>, <<"f", "oo">>>>,
     <<<<"a", "r", "e">>, <<"aa">>>>,
     <<<<"w", "i", "t", "h">>, <<"w", "ih", "th">>>>,
     <<<<"h", "i", "s">>, <<"h", "ih", "z">>>>,
     <<<<"t", "h", "e", "y">>, <<"dh", "ei">>>>,
     <<<<"t", "h", "i", "s">>, <<"dh", "ih", "s">>>>,
     <<<<"f", "r", "o", "m">>, <<"f", "r", "o", "m">>>>,
     <<<<"s", "h", "e">>, <<"sh", "ii">>>>,
     <<<<"h", "e", "r">>, <<"h", "er">>>>,
     <<<<"b", "e", "e", "n">>, <<"b", "ii", "n">>>>,
     <<<<"t", "h", "a", "n">>, <<"dh", "ae", "n">>>>,
     <<<<"i", "t", "s">>, <<"ih", "t", "s">>>>,
     <<<<"n", "o", "w">>, <<"n", "au">>>>,
     <<<<"m", "o", "r", "e">>, <<"m", "oo">>>>,
     <<<<"v", "e", "r", "y">>, <<"v", "e", "r", "ih">>>>,
     <<<<"w", "h", "a", "t">>, <<"w", "o", "t">>>>,
     <<<<"k", "n", "o", "w">>, <<"n", "ou">>>>,
     <<<<"j", "u", "s", "t">>, <<"dj", "ah", "s", "t">>>>,
     <<<<"f", "i", "r", "s", "t">>, <<"f", "er", "s", "t">>>>,
     <<<<"t", "i", "m", "e">>, <<"t", "ai", "m">>>>,
     <<<<"p", "e", "o", "p", "l", "e">>, <<"p", "ii", "p", "schwa", "l">>>>,
     <<<<"g", "o", "o", "d">>, <<"g", "uh", "d">>>>,
     <<<<"w", "o", "r", "k">>, <<"w", "er", "k">>>>,
     <<<<"s", "c", "h", "o", "o", "l">>, <<"s", "k", "uu", "l">>>>,
     <<<<"w", "o", "r", "l", "d">>, <<"w", "er", "l", "d">>>>,
     <<<<"g", "r", "e", "a", "t">>, <<"g", "r", "ei", "t">>>>,
     <<<<"t", "h", "i", "n", "k">>, <<"th", "ih", "ng", "k">>>>,
     <<<<"w", "a", "y">>, <<"w", "ei">>>>,
     <<<<"m", "a", "k", "e">>, <<"m", "ei", "k">>>>,
     <<<<"t", "o", "d", "a", "y">>, <<"t", "schwa", "d", "ei">>>>,
     <<<<"h", "e", "l", "p">>, <<"h", "e", "l", "p">>>>,
     <<<<"h", "o", "m", "e">>, <<"h", "ou", "m">>>>,
     <<<<"n", "i", "c", "e">>, <<"n", "ai", "s">>>>,
     <<<<"h", "a", "p", "p", "y">>, <<"h", "ae", "p", "ih">>>>,
     <<<<"l", "o", "v", "e">>, <<"l", "ah", "v">>>>,
     <<<<"l", "i", "k", "e">>, <<"l", "ai", "k">>>>,
     <<<<"w", "a", "n", "t">>, <<"w", "o", "n", "t">>>>,
     <<<<"n", "e", "e", "d">>, <<"n", "ii", "d">>>>,
     <<<<"t", "h", "a", "n", "k">>, <<"th", "ae", "ng", "k">>>>,
     <<<<"y", "o", "u">>, <<"j", "uu">>>>,
     <<<<"h", "e", "l", "l", "o">>, <<"h", "schwa", "l", "ou">>>>,
     <<<<"w", "a", "t", "e", "r">>, <<"w", "oo", "t", "schwar">>>>,
     <<<<"f", "o", "o", "d">>, <<"f", "uu", "d">>>>,
     <<<<"m", "o", "n", "e", "y">>, <<"m", "ah", "n", "ih">>>>,
     <<<<"h", "o", "u", "s", "e">>, <<"h", "au", "s">>>>,
     <<<<"f", "r", "i", "e", "n", "d">>, <<"f", "r", "e", "n", "d">>>>,
     <<<<"f", "a", "m", "i", "l", "y">>, <<"f", "ae", "m", "ih", "l", "ih">>>>,
     <<<<"b", "o", "o", "k">>, <<"b", "uh", "k">>>>,
     <<<<"m", "u", "s", "i", "c">>, <<"m", "j", "uu", "z", "ih", "k">>>>,
     <<<<"b", "e", "a", "u", "t", "i", "f", "u", "l">>, <<"b", "j", "uu", "t", "ih", "f", "uh", "l">>>>,
     <<<<"i", "m", "p", "o", "r", "t", "a", "n", "t">>, <<"ih", "m", "p", "oo", "t", "schwa", "n", "t">>>>,
     <<<<"d", "i", "f", "f", "e", "r", "e", "n", "t">>, <<"d", "ih", "f", "schwar", "schwa", "n", "t">>>>,
     <<<<"b", "e", "c", "a", "u", "s", "e">>, <<"b", "ih", "k", "o", "z">>>>}

InRules(phoneme_rules, word) == \E e \in phoneme_rules : e[1] = word

RuleFor(phoneme_rules, word) == (CHOOSE e \in phoneme_rules : e[1] = word)[2]

UpperToLower ==
    [A |-> "a", B |-> "b", C |-> "c", D |-> "d", E |-> "e", F |-> "f", G |-> "g", H |-> "h", I |-> "i", J |-> "j", K |-> "k", L |-> "l", M |-> "m", N |-> "n", O |-> "o", P |-> "p", Q |-> "q", R |-> "r", S |-> "s", T |-> "t", U |-> "u", V |-> "v", W |-> "w", X |-> "x", Y |-> "y", Z |-> "z"]

\* str.lower() on one character
Lower(c) == IF c \in DOMAIN UpperToLower THEN UpperToLower[c] ELSE c

\* the characters the regular expression class \w matches
IsWordChar(c) ==
    c \in {"a", "b", "c", "d", "e", "f", "g", "h", "i", "j", "k", "l", "m",
           "n", "o", "p", "q", "r", "s", "t", "u", "v", "w", "x", "y", "z",
           "0", "1", "2", "3", "4", "5", "6", "7", "8", "9", "_"}

\* re.sub(r'[^\w]', '', word.lower())
CleanWord(word) == SelectSeq([i \in 1..Len(word) |-> Lower(word[i])], IsWordChar)

\* the per-character fallback: mapped, or passed through unchanged
CharPhoneme(c) == IF c \in DOMAIN phoneme_map THEN phoneme_map[c] ELSE c

WordToPhonemes(phoneme_rules, word_clean) ==
    IF InRules(phoneme_rules, word_clean) THEN RuleFor(phoneme_rules, word_clean)
    ELSE [i \in 1..Len(word_clean) |-> CharPhoneme(word_clean[i])]

RECURSIVE text_to_phonemes_from(_, _)
text_to_phonemes_from(text, k) ==
    IF k > Len(text) THEN <<>>
    ELSE WordToPhonemes(text_phoneme_rules, CleanWord(text[k]))
             \o text_to_phonemes_from(text, k + 1)

text_to_phonemes(text) == text_to_phonemes_from(text, 1)

\* the dict word_clean -> phonemes
map_words_to_phonemes(words) ==
    [w \in {CleanWord(words[i]) : i \in 1..Len(words)} |->
        WordToPhonemes(word_phoneme_rules, w)]

(***************************************************************************)
(* PhonemeScorer.force_align_ctc: the uniform split on both paths, whether *)
(* or not model inference raised.                                          *)
(***************************************************************************)
\* a plausible slip: the except branch returns no segments
force_align_ctc_empty_on_failure(audio_length, phoneme_sequence, inference_raises, sr) ==
    IF inference_raises THEN <<>>
    ELSE simple_uniform_alignment(audio_length, phoneme_sequence, sr)

force_align_ctc(audio_length, phoneme_sequence, inference_raises, sr) ==
    LET total_duration == Q(audio_length, sr)
        phoneme_count == Len(phoneme_sequence)
    IN  IF phoneme_count = 0 THEN <<>>
        ELSE LET avg_duration == QDiv(total_duration, QInt(phoneme_count))
             IN  [i \in 1..phoneme_count |->
                     Segment(phoneme_sequence[i],
                             QMul(QInt(i - 1), avg_duration),
                             QMul(QInt(i), avg_duration))]

(***************************************************************************)
(* PhonemeScorer.extract_acoustic_features: the keys it returns when it    *)
(* succeeds; it returns the empty dict when anything inside it raises.     *)
(* The values the scorer never reads are held at 0.                        *)
(***************************************************************************)
\* a plausible slip: the dict also carries the formant and burst measures
\* the secondary rules read
ExtractedFeatures_with_formants(mfcc_stability, energy_mean, spectral_centroid_mean, zcr_mean) ==
    [f0 |-> QInt(0), f0_mean |-> QInt(0), f0_std |-> QInt(0),
     mfcc |-> QInt(0), mfcc_mean |-> mfcc_stability, mfcc_std |-> QInt(0),
     spectral_centroid_mean |-> spectral_centroid_mean,
     spectral_bandwidth_mean |-> QInt(0),
     energy_mean |-> energy_mean, energy_std |-> QInt(0),
     zcr_mean |-> zcr_mean,
     f1 |-> QInt(520), energy_max |-> energy_mean, voicing_rate |-> Q(5, 10)]

ExtractedFeatures(mfcc_stability, energy_mean, spectral_centroid_mean, zcr_mean) ==
    [f0 |-> QInt(0), f0_mean |-> QInt(0), f0_std |-> QInt(0),
     mfcc |-> QInt(0), mfcc_mean |-> mfcc_stability, mfcc_std |-> QInt(0),
     spectral_centroid_mean |-> spectral_centroid_mean,
     spectral_bandwidth_mean |-> QInt(0),
     energy_mean |-> energy_mean, energy_std |-> QInt(0),
     zcr_mean |-> zcr_mean]

\* extract_acoustic_features raised: return {}
NoFeatures == <<>>

\* results of extract_acoustic_features on a segment: a clear bright sound,
\* a clear dark sound, a middling one, a weak unstable one, and a failure
ExtractOutputs ==
    {ExtractedFeatures(QInt(10), Q(5, 100), QInt(3000), Q(3, 10)),
     ExtractedFeatures(QInt(10), Q(5, 100), QInt(1200), Q(5, 100)),
     ExtractedFeatures(QInt(25), Q(7, 1000), QInt(1800), Q(2, 10)),
     ExtractedFeatures(QInt(35), Q(1, 1000), QInt(500), Q(5, 100)),
     NoFeatures}

(***************************************************************************)
(* PhonemeScorer.analyze_pronunciation_detailed, step 5: phoneme scores    *)
(***************************************************************************)
\* int(x) for x >= 0
Floor(q) == q[1] \div q[2]

\* len(audio_data[start_sample:end_sample])
SliceLength(audio_length, start_sample, end_sample) ==
    LET lo == IF start_sample > audio_length THEN audio_length ELSE start_sample
        hi == IF end_sample > audio_length THEN audio_length ELSE end_sample
    IN  IF hi > lo THEN hi - lo ELSE 0

\* min(1.0, max(0.3, 1.0 - len(issues) * 0.1))
Confidence(issues) ==
    QMin(QInt(1), QMax(Q(3, 10), QSub(QInt(1), QMul(QInt(Len(issues)), Q(1, 10)))))

PhonemeScore(phoneme, start_time, end_time, score, confidence, quality, issues) ==
    [phoneme |-> phoneme, start_time |-> start_time, end_time |-> end_time,
     score |-> score, confidence |-> confidence, quality |-> quality,
     issues |-> issues]

\* the PhonemeScore of alignment i, whose segment has the features given
ScoredPhoneme(alignment, scored) ==
    PhonemeScore(alignment.phoneme, alignment.start_time, alignment.end_time,
                 scored.score, Confidence(scored.issues),
                 get_quality_level(QInt(scored.score)), scored.issues)

ScoreAlignment(alignment, phoneme_features) ==
    ScoredPhoneme(alignment,
                  score_phoneme_quality(alignment.phoneme, phoneme_features,
                                        QSub(alignment.end_time, alignment.start_time)))

\* the loop over alignments: segments whose sample slice is empty are skipped;
\* segment_features[i] is what extract_acoustic_features returns for segment i
RECURSIVE ScoreAlignmentsFrom(_, _, _, _, _)
ScoreAlignmentsFrom(alignments, segment_features, audio_length, sr, i) ==
    IF i > Len(alignments) THEN <<>>
    ELSE LET start_sample == Floor(QMul(alignments[i].start_time, QInt(sr)))
             end_sample == Floor(QMul(alignments[i].end_time, QInt(sr)))
             rest == ScoreAlignmentsFrom(alignments, segment_features, audio_length, sr, i + 1)
         IN  IF SliceLength(audio_length, start_sample, end_sample) > 0
             THEN <<ScoreAlignment(alignments[i], segment_features[i])>> \o rest
             ELSE rest

RECURSIVE Flatten(_)
Flatten(seqs) == IF seqs = <<>> THEN <<>> ELSE Head(seqs) \o Flatten(Tail(seqs))

(***************************************************************************)
(* PhonemeScorer.analyze_word_pronunciation                                *)
(***************************************************************************)
\* the substring tests on issue messages, as sets of message templates
Contains_too_short(issue) == issue.kind = "duration_far_too_short"      \* '过短'

Contains_too_long(issue) == issue.kind = "duration_far_too_long"        \* '过长'

Contains_energy_insufficient(issue) == issue.kind = "energy_insufficient"  \* '能量不足'

Contains_unstable(issue) == issue.kind \in {"unstable", "slightly_unstable"}  \* '不稳定'

\* '清晰' occurs only in the energy_insufficient message; '清晰度' in none
Contains_clear(issue) == issue.kind = "energy_insufficient"

\* round(x, 1) for x >= 0, ties to even
Round1(q) ==
    LET n10 == q[1] * 10
        fl == n10 \div q[2]
        rem2 == 2 * (n10 % q[2])
        r == IF rem2 < q[2] THEN fl
             ELSE IF rem2 > q[2] THEN fl + 1
             ELSE IF fl % 2 = 0 THEN fl ELSE fl + 1
    IN  Q(r, 10)

\* np.mean of a non-empty sequence of rationals
QMean(f) == QDiv(QSumTo(f, Len(f)), QInt(Len(f)))

\* one expected phoneme against the score sequence at the (0-based) cursor:
\* the new cursor and the (0-based) position found, if any
MatchPhoneme(phoneme_scores, current_phoneme_index, phoneme) ==
    LET n == Len(phoneme_scores)
        lo == IF current_phoneme_index - 2 < 0 THEN 0 ELSE current_phoneme_index - 2
        hi == IF current_phoneme_index + 3 > n THEN n ELSE current_phoneme_index + 3
        near == {i \in lo..(hi - 1) : phoneme_scores[i + 1].phoneme = phoneme}
    IN  IF current_phoneme_index < n
        THEN IF phoneme_scores[current_phoneme_index + 1].phoneme = phoneme
             THEN [cursor |-> current_phoneme_index + 1, found |-> <<current_phoneme_index>>]
             ELSE IF near = {}
             THEN [cursor |-> current_phoneme_index, found |-> <<>>]
             ELSE LET i == CHOOSE x \in near : \A y \in near : x <= y
                  IN  [cursor |-> i + 1, found |-> <<i>>]
        ELSE [cursor |-> current_phoneme_index, found |-> <<>>]

\* the loop over one word's expected phonemes, from the k-th on
RECURSIVE CollectWordFrom(_, _, _, _)
CollectWordFrom(word_phonemes, k, current_phoneme_index, phoneme_scores) ==
    IF k > Len(word_phonemes)
    THEN [cursor |-> current_phoneme_index, found |-> <<>>]
    ELSE LET step == MatchPhoneme(phoneme_scores, current_phoneme_index, word_phonemes[k])
             rest == CollectWordFrom(word_phonemes, k + 1, step.cursor, phoneme_scores)
         IN  [cursor |-> rest.cursor, found |-> step.found \o rest.found]

\* PhonemeScorer._get_word_specific_suggestions
word_tips ==
    {<<"t", "h", "e">>, <<"t", "h", "i", "s">>, <<"t", "h", "a", "t">>,
     <<"t", "h", "i", "n", "k">>, <<"t", "h", "a", "n", "k">>, <<"w", "i", "t", "h">>,
     <<"w", "a", "t", "e", "r">>, <<"w", "o", "r", "k">>, <<"w", "o", "r", "l", "d">>,
     <<"b", "e", "a", "u", "t", "i", "f", "u", "l">>,
     <<"i", "m", "p", "o", "r", "t", "a", "n", "t">>,
     <<"d", "i", "f", "f", "e", "r", "e", "n", "t">>,
     <<"s", "c", "h", "o", "o", "l">>, <<"p", "e", "o", "p", "l", "e">>,
     <<"b", "e", "c", "a", "u", "s", "e">>}

PhonemeTip(phoneme) ==
    IF phoneme = "th" THEN <<[kind |-> "tip_th"]>>
    ELSE IF phoneme = "dh" THEN <<[kind |-> "tip_dh"]>>
    ELSE IF phoneme = "r" THEN <<[kind |-> "tip_r"]>>
    ELSE IF phoneme = "l" THEN <<[kind |-> "tip_l"]>>
    ELSE IF phoneme \in {"ae", "aa", "o"} THEN <<[kind |-> "tip_open_vowel"]>>
    ELSE IF phoneme \in {"ii", "ih"} THEN <<[kind |-> "tip_high_vowel"]>>
    ELSE IF phoneme \in {"s", "z"} THEN <<[kind |-> "tip_s_z"]>>
    ELSE IF phoneme \in {"sh", "zh"} THEN <<[kind |-> "tip_sh_zh"]>>
    ELSE <<>>

get_word_specific_suggestions(word, problematic_phonemes) ==
    (IF word \in word_tips THEN <<[kind |-> "word_tip", word |-> word]>> ELSE <<>>)
    \o Flatten([i \in 1..Len(problematic_phonemes) |-> PhonemeTip(problematic_phonemes[i])])

IsPoor(ps) == ps.quality = "poor"

IsFair(ps) == ps.quality = "fair"

PhonemesOf(scores) == [i \in 1..Len(scores) |-> scores[i].phoneme]

SymbolSet(symbols) == {symbols[i] : i \in 1..Len(symbols)}

\* PhonemeScorer._generate_word_suggestions; a joined list of distinct
\* symbols is kept as the set of those symbols
generate_word_suggestions(word, phoneme_scores, issues) ==
    LET poor_phonemes == PhonemesOf(SelectSeq(phoneme_scores, IsPoor))
        fair_phonemes == PhonemesOf(SelectSeq(phoneme_scores, IsFair))
        timing(issue) == Contains_too_short(issue) \/ Contains_too_long(issue)
        clarity(issue) ==
            Contains_unstable(issue) \/ Contains_clear(issue)
                \/ Contains_energy_insufficient(issue)
        timing_issues == SelectSeq(issues, timing)
        clarity_issues == SelectSeq(issues, clarity)
    IN  (IF timing_issues # <<>> THEN <<[kind |-> "word_rhythm", word |-> word]>> ELSE <<>>)
        \o (IF clarity_issues # <<>> THEN <<[kind |-> "word_clarity", word |-> word]>> ELSE <<>>)
        \o (IF poor_phonemes # <<>>
            THEN <<[kind |-> "word_practice_phonemes", word |-> word,
                    symbols |-> SymbolSet(poor_phonemes)]>>
            ELSE <<>>)
        \o (IF fair_phonemes # <<>> /\ poor_phonemes = <<>>
            THEN <<[kind |-> "word_refine", word |-> word]>> ELSE <<>>)
        \o get_word_specific_suggestions(word, poor_phonemes \o fair_phonemes)
        \o (IF poor_phonemes = <<>> /\ fair_phonemes = <<>>
               /\ timing_issues = <<>> /\ clarity_issues = <<>>
            THEN <<[kind |-> "word_good", word |-> word]>> ELSE <<>>)

\* quality_weights of analyze_word_pronunciation
WordQualityWeight(quality) ==
    CASE quality = "excellent" -> Q(10, 10) [] quality = "good" -> Q(11, 10)
      [] quality = "fair" -> Q(13, 10) [] quality = "poor" -> Q(15, 10)
      [] OTHER -> Q(10, 10)

SevereWordIssue(issue) ==
    \/ Contains_too_short(issue) \/ Contains_too_long(issue)
    \/ Contains_energy_insufficient(issue) \/ Contains_unstable(issue)

\* the score of a word before rounding: the quality-weighted mean, times
\* 0.85 when severe issues outnumber 30% of the word's expected phonemes
WordScore(word_phonemes, word_phoneme_scores, word_issues) ==
    LET weighted_scores ==
            [i \in 1..Len(word_phoneme_scores) |->
                QDiv(QInt(word_phoneme_scores[i].score),
                     WordQualityWeight(word_phoneme_scores[i].quality))]
        mean == QMean(weighted_scores)
        severe_issues == SelectSeq(word_issues, SevereWordIssue)
    IN  IF 10 * Len(severe_issues) > 3 * Len(word_phonemes)
        THEN QMul(mean, Q(85, 100)) ELSE mean

\* a plausible slip: severe issues are not looked at
NeedsImprovementFlag_score_only(word_score, severe_issues) == QLt(word_score, QInt(70))

\* 'needs_improvement': word_score < 70 or len(severe_issues) > 0
NeedsImprovementFlag(word_score, severe_issues) ==
    QLt(word_score, QInt(70)) \/ Len(severe_issues) > 0

\* the dict appended for one word, given the positions found for it
WordAnalysis(word_clean, word_phonemes, found, phoneme_scores) ==
    LET word_phoneme_scores == [i \in 1..Len(found) |-> phoneme_scores[found[i] + 1]]
        word_issues ==
            Flatten([i \in 1..Len(found) |-> word_phoneme_scores[i].issues])
        word_score == WordScore(word_phonemes, word_phoneme_scores, word_issues)
        severe_issues == SelectSeq(word_issues, SevereWordIssue)
    IN  IF word_phoneme_scores # <<>>
        THEN [word |-> word_clean,
              score |-> Round1(word_score),
              quality |-> get_quality_level(word_score),
              phonemes |-> word_phonemes,
              phoneme_scores |->
                  [i \in 1..Len(found) |->
                      [phoneme |-> word_phoneme_scores[i].phoneme,
                       score |-> word_phoneme_scores[i].score,
                       quality |-> word_phoneme_scores[i].quality,
                       issues |-> word_phoneme_scores[i].issues]],
              issues |-> {word_issues[i] : i \in 1..Len(word_issues)},
              suggestions |->
                  generate_word_suggestions(word_clean, word_phoneme_scores, word_issues),
              needs_improvement |-> NeedsImprovementFlag(word_score, severe_issues)]
        ELSE [word |-> word_clean,
              score |-> QInt(0),
              quality |-> "unknown",
              phonemes |-> word_phonemes,
              phoneme_scores |-> <<>>,
              issues |-> {[kind |-> "no_word_analysis"]},
              suggestions |-> <<[kind |-> "practice_word", word |-> word_clean]>>,
              needs_improvement |-> TRUE]

\* the loop over the words, from the w-th on, with the cursor carried along
RECURSIVE AnalyzeWordsFrom(_, _, _, _, _)
AnalyzeWordsFrom(words, word_phoneme_mapping, phoneme_scores, w, current_phoneme_index) ==
    IF w > Len(words) THEN <<>>
    ELSE LET word_clean == CleanWord(words[w])
         IN  IF word_clean \in DOMAIN word_phoneme_mapping
             THEN LET word_phonemes == word_phoneme_mapping[word_clean]
                      got == CollectWordFrom(word_phonemes, 1, current_phoneme_index,
                                             phoneme_scores)
                  IN  <<WordAnalysis(word_clean, word_phonemes, got.found, phoneme_scores)>>
                      \o AnalyzeWordsFrom(words, word_phoneme_mapping, phoneme_scores,
                                          w + 1, got.cursor)
             ELSE AnalyzeWordsFrom(words, word_phoneme_mapping, phoneme_scores,
                                   w + 1, current_phoneme_index)

\* the values of current_phoneme_index around each expected phoneme of one
\* word, from the k-th on: before the lookup, the position found, after it
RECURSIVE CursorSteps(_, _, _, _)
CursorSteps(word_phonemes, k, current_phoneme_index, phoneme_scores) ==
    IF k > Len(word_phonemes) THEN <<>>
    ELSE LET step == MatchPhoneme(phoneme_scores, current_phoneme_index, word_phonemes[k])
         IN  <<[before |-> current_phoneme_index, found |-> step.found,
                after |-> step.cursor]>>
             \o CursorSteps(word_phonemes, k + 1, step.cursor, phoneme_scores)

\* the same over the words, from the w-th on
RECURSIVE CursorTrace(_, _, _, _, _)
CursorTrace(words, word_phoneme_mapping, phoneme_scores, w, current_phoneme_index) ==
    IF w > Len(words) THEN <<>>
    ELSE LET word_clean == CleanWord(words[w])
         IN  IF word_clean \in DOMAIN word_phoneme_mapping
             THEN LET steps == CursorSteps(word_phoneme_mapping[word_clean], 1,
                                           current_phoneme_index, phoneme_scores)
                  IN  steps \o CursorTrace(words, word_phoneme_mapping, phoneme_scores, w + 1,
                                           IF steps = <<>> THEN current_phoneme_index
                                           ELSE steps[Len(steps)].after)
             ELSE CursorTrace(words, word_phoneme_mapping, phoneme_scores, w + 1,
                              current_phoneme_index)

\* a plausible slip: a word without resolved phoneme scores gets no entry
analyze_word_pronunciation_resolved_only(words, word_phoneme_mapping, phoneme_scores) ==
    LET resolved(entry) == entry.phoneme_scores # <<>>
    IN  SelectSeq(AnalyzeWordsFrom(words, word_phoneme_mapping, phoneme_scores, 1, 0),
                  resolved)

analyze_word_pronunciation(words, word_phoneme_mapping, phoneme_scores) ==
    AnalyzeWordsFrom(words, word_phoneme_mapping, phoneme_scores, 1, 0)

(***************************************************************************)
(* PhonemeScorer._generate_detailed_suggestions: the lines it returns, one *)
(* record per line.  list(set(...))[:n] keeps n of the distinct symbols in *)
(* an order the runtime chooses; unique_poor and unique_fair are the sets  *)
(* kept.                                                                   *)
(***************************************************************************)
\* the outcomes of list(set(symbols))[:n], as sets
Listed(symbols, n) ==
    LET distinct == SymbolSet(symbols)
    IN  IF Cardinality(distinct) <= n THEN {distinct}
        ELSE {T \in SUBSET distinct : Cardinality(T) = n}

NeedsImprovement(ws) == ws.needs_improvement

\* the line of one word and at most two of its suggestions
WordBlock(word_info) ==
    <<[kind |-> "word", word |-> word_info.word, score |-> word_info.score,
       quality |-> word_info.quality]>>
    \o [i \in 1..(IF Len(word_info.suggestions) < 2 THEN Len(word_info.suggestions) ELSE 2) |->
           [kind |-> "word_suggestion", suggestion |-> word_info.suggestions[i]]]

generate_detailed_suggestions(phoneme_scores, word_scores, all_issues, unique_poor, unique_fair) ==
    LET words_needing_improvement == SelectSeq(word_scores, NeedsImprovement)
        shown == IF Len(words_needing_improvement) < 5
                 THEN Len(words_needing_improvement) ELSE 5
        poor_phonemes == PhonemesOf(SelectSeq(phoneme_scores, IsPoor))
        fair_phonemes == PhonemesOf(SelectSeq(phoneme_scores, IsFair))
        timing(issue) == Contains_too_short(issue) \/ Contains_too_long(issue)
        clarity(issue) == Contains_unstable(issue) \/ Contains_energy_insufficient(issue)
        articulation(issue) ==
            issue.kind \in {"high_frequency_deficient", "sibilant_friction_weak",
                            "stop_burst_weak", "voiced_stop_voicing_weak",
                            "low_vowel_timbre_high", "high_vowel_tongue_inaccurate",
                            "high_vowel_tongue_low", "low_vowel_opening"}
        mean_score ==
            IF phoneme_scores # <<>>
            THEN QMean([i \in 1..Len(phoneme_scores) |-> QInt(phoneme_scores[i].score)])
            ELSE QInt(0)
    IN  (IF words_needing_improvement # <<>>
         THEN <<[kind |-> "words_header"]>>
              \o Flatten([i \in 1..shown |-> WordBlock(words_needing_improvement[i])])
         ELSE <<>>)
        \o (IF poor_phonemes # <<>>
            THEN <<[kind |-> "poor_phonemes", symbols |-> unique_poor]>> ELSE <<>>)
        \o (IF fair_phonemes # <<>> /\ poor_phonemes = <<>>
            THEN <<[kind |-> "fair_phonemes", symbols |-> unique_fair]>> ELSE <<>>)
        \o (IF SelectSeq(all_issues, timing) # <<>>
            THEN <<[kind |-> "timing_header"], [kind |-> "timing_tip_1"],
                   [kind |-> "timing_tip_2"]>>
            ELSE <<>>)
        \o (IF SelectSeq(all_issues, clarity) # <<>>
            THEN <<[kind |-> "clarity_header"], [kind |-> "clarity_tip_1"],
                   [kind |-> "clarity_tip_2"]>>
            ELSE <<>>)
        \o (IF SelectSeq(all_issues, articulation) # <<>>
            THEN <<[kind |-> "articulation_header"], [kind |-> "articulation_tip_1"],
                   [kind |-> "articulation_tip_2"]>>
            ELSE <<>>)
        \o (IF QLt(mean_score, QInt(60))
            THEN <<[kind |-> "basic_practice_header"], [kind |-> "basic_practice_tip_1"],
                   [kind |-> "basic_practice_tip_2"], [kind |-> "basic_practice_tip_3"]>>
            ELSE IF QLt(mean_score, QInt(75))
            THEN <<[kind |-> "improve_practice_header"], [kind |-> "improve_practice_tip_1"],
                   [kind |-> "improve_practice_tip_2"]>>
            ELSE IF QLt(mean_score, QInt(85))
            THEN <<[kind |-> "refine_practice_header"], [kind |-> "refine_practice_tip_1"],
                   [kind |-> "refine_practice_tip_2"]>>
            ELSE <<[kind |-> "keep_up_header"], [kind |-> "keep_up_tip_1"],
                   [kind |-> "keep_up_tip_2"]>>)
        \o (IF Len(all_issues) > 3
            THEN <<[kind |-> "technique_header"], [kind |-> "technique_tip_1"],
                   [kind |-> "technique_tip_2"], [kind |-> "technique_tip_3"]>>
            ELSE <<>>)

(***************************************************************************)
(* PhonemeScorer.analyze_pronunciation_detailed, step 7: the overall score *)
(***************************************************************************)
\* quality_weights.get(ps.quality, 0.5)
QualityWeight(quality) ==
    CASE quality = "excellent" -> Q(10, 10) [] quality = "good" -> Q(9, 10)
      [] quality = "fair" -> Q(7, 10) [] quality = "poor" -> Q(4, 10)
      [] OTHER -> Q(5, 10)

SevereIssue(issue) ==
    \/ Contains_too_short(issue) \/ Contains_too_long(issue)
    \/ Contains_energy_insufficient(issue)

\* max(0, min(100, x)) on rationals
QClamp100(x) == QMax(QInt(0), QMin(QInt(100), x))

\* a plausible slip: the adjustment only caps, the 5 points are not deducted
CapAt_pure(limit, overall_score, also) ==
    IF QLt(QInt(limit), overall_score) /\ also
    THEN QMin(QInt(limit), overall_score) ELSE overall_score

\* if overall_score > limit and (also): overall_score = min(limit, overall_score - 5)
CapAt(limit, overall_score, also) ==
    IF QLt(QInt(limit), overall_score) /\ also
    THEN QMin(QInt(limit), QSub(overall_score, QInt(5))) ELSE overall_score

\* adjusted_score = ps.score * ps.confidence * quality_weight, then np.mean
BaseScore(phoneme_scores) ==
    QMean([i \in 1..Len(phoneme_scores) |->
              QMul(QMul(QInt(phoneme_scores[i].score), phoneme_scores[i].confidence),
                   QualityWeight(phoneme_scores[i].quality))])

PoorRatio(phoneme_scores) ==
    Q(Len(SelectSeq(phoneme_scores, IsPoor)), Len(phoneme_scores))

FairRatio(phoneme_scores) ==
    Q(Len(SelectSeq(phoneme_scores, IsFair)), Len(phoneme_scores))

\* a plausible slip: the two thresholds of the poor-ratio rule are tested in
\* the wrong order
PoorRatioPenalty_wrong_order(poor_ratio) ==
    IF QLt(Q(2, 10), poor_ratio) THEN 10
    ELSE IF QLt(Q(3, 10), poor_ratio) THEN 15 ELSE 0

\* if poor_ratio > 0.3: penalty += 15 elif poor_ratio > 0.2: penalty += 10
PoorRatioPenalty(poor_ratio) ==
    IF QLt(Q(3, 10), poor_ratio) THEN 15
    ELSE IF QLt(Q(2, 10), poor_ratio) THEN 10 ELSE 0

\* if fair_ratio > 0.4: penalty += 8
FairRatioPenalty(fair_ratio) == IF QLt(Q(4, 10), fair_ratio) THEN 8 ELSE 0

\* a plausible slip: the lower threshold is tested first, so 12 is never added
IssueCountPenalty_low_first(n, total_issues) ==
    IF QLt(QMul(QInt(n), Q(3, 10)), QInt(total_issues)) THEN 6
    ELSE IF QLt(QMul(QInt(n), Q(5, 10)), QInt(total_issues)) THEN 12 ELSE 0

\* total_issues against 0.5 and 0.3 issues per phoneme
IssueCountPenalty(n, total_issues) ==
    IF QLt(QMul(QInt(n), Q(5, 10)), QInt(total_issues)) THEN 12
    ELSE IF QLt(QMul(QInt(n), Q(3, 10)), QInt(total_issues)) THEN 6 ELSE 0

SevereIssues(all_issues) == SelectSeq(all_issues, SevereIssue)

\* if len(severe_issues) > 3: penalty += 10
SevereIssuePenalty(severe_issues) == IF Len(severe_issues) > 3 THEN 10 ELSE 0

Penalty(phoneme_scores, all_issues) ==
    PoorRatioPenalty(PoorRatio(phoneme_scores))
    + FairRatioPenalty(FairRatio(phoneme_scores))
    + IssueCountPenalty(Len(phoneme_scores), Len(all_issues))
    + SevereIssuePenalty(SevereIssues(all_issues))

\* overall_score = max(0, min(100, base_score - penalty))
ClampedScore(phoneme_scores, all_issues) ==
    QClamp100(QSub(BaseScore(phoneme_scores), QInt(Penalty(phoneme_scores, all_issues))))

\* a plausible slip: each score is weighted by the length of its segment
\* (in tenths of a second) instead of its confidence
OverallScore_duration_weighted(phoneme_scores, all_issues) ==
    IF phoneme_scores = <<>> THEN QInt(0)
    ELSE QClamp100(QSub(
             QMean([i \in 1..Len(phoneme_scores) |->
                       QMul(QMul(QInt(phoneme_scores[i].score),
                                 QMul(QInt(10), QSub(phoneme_scores[i].end_time,
                                                     phoneme_scores[i].start_time))),
                            QualityWeight(phoneme_scores[i].quality))]),
             QInt(Penalty(phoneme_scores, all_issues))))

OverallScore(phoneme_scores, all_issues) ==
    IF phoneme_scores = <<>> THEN QInt(0)
    ELSE CapAt(75,
               CapAt(85, ClampedScore(phoneme_scores, all_issues),
                     QLt(Q(1, 10), PoorRatio(phoneme_scores))
                         \/ Len(SevereIssues(all_issues)) > 1),
               QLt(Q(2, 10), PoorRatio(phoneme_scores)))

(***************************************************************************)
(* Inputs of the aggregation (step 7): ordered lists of PhonemeScore       *)
(* values.  A PhonemeScore is built from a (score, issues) pair as lines   *)
(* 408-418 build it; score ranges over the 0..100 the type documents       *)
(* (score_phoneme_quality itself starts at 80 and only deducts).           *)
(***************************************************************************)
\* longest list of PhonemeScore values aggregated
MaxScores == 10

\* (score, issues) pairs: flawless, clean, low energy, short and weak, and
\* the five-issue sibilant
ScoredKinds ==
    {[score |-> 100, issues |-> <<>>],
     [score |-> 80, issues |-> <<>>],
     [score |-> 65, issues |-> <<Issue("energy_low", "s")>>],
     [score |-> 25, issues |-> <<Issue("duration_far_too_short", "s"),
                                 Issue("energy_insufficient", "s")>>],
     [score |-> 0, issues |-> <<Issue("duration_far_too_short", "s"),
                                Issue("unstable", "s"),
                                Issue("energy_insufficient", "s"),
                                Issue("high_frequency_deficient", "s"),
                                Issue("sibilant_friction_weak", "s")>>]}

\* n PhonemeScore values: the first k of one kind, the others of another;
\* segment i covers [(i-1) * span, i * span]
ScoreList(n, k, first, others, phoneme, span) ==
    [i \in 1..n |->
        ScoredPhoneme(Segment(phoneme, QMul(QInt(i - 1), span), QMul(QInt(i), span)),
                      IF i <= k THEN first ELSE others)]

(***************************************************************************)
(* PhonemeScorer.analyze_pronunciation_detailed                            *)
(*                                                                         *)
(* audio_data is an array of some length or None; reference_text is a      *)
(* string (its tokens) or None.  The outcome is a returned                 *)
(* DetailedPronunciationResult or an exception leaving the function.       *)
(***************************************************************************)
Returned(type, value) == [outcome |-> "return", type |-> type, value |-> value]

Raised(exception) == [outcome |-> "raise", exception |-> exception]

DetailedPronunciationResult(overall_score, phoneme_scores, word_scores, pronunciation_issues, improvement_suggestions, duration_analysis, pitch_analysis) ==
    [overall_score |-> overall_score, phoneme_scores |-> phoneme_scores,
     word_scores |-> word_scores, pronunciation_issues |-> pronunciation_issues,
     improvement_suggestions |-> improvement_suggestions,
     duration_analysis |-> duration_analysis, pitch_analysis |-> pitch_analysis]

\* the result built in the except branch
DefaultResult(audio_length, sr) ==
    DetailedPronunciationResult(
        QInt(0), <<>>, <<>>, {[kind |-> "analysis_error"]},
        <<[kind |-> "check_audio_and_record_again"]>>,
        [total_duration |-> IF audio_length > 0 THEN Q(audio_length, sr) ELSE QInt(0)],
        <<>>)

\* steps 1 to 5: the phoneme scores of the call
AnalyzedPhonemeScores(audio_length, tokens, inference_raises, segment_features, sr) ==
    LET phoneme_sequence == text_to_phonemes(tokens)
        alignments == force_align_ctc(audio_length, phoneme_sequence, inference_raises, sr)
    IN  ScoreAlignmentsFrom(alignments, segment_features, audio_length, sr, 1)

\* all_issues when the loop over alignments ends
AllIssues(phoneme_scores) ==
    Flatten([i \in 1..Len(phoneme_scores) |-> phoneme_scores[i].issues])

\* steps 7 to 9 and the result object
AnalysisResult(audio_length, sr, phoneme_sequence, phoneme_scores, all_issues, word_scores, global_features, unique_poor, unique_fair) ==
    LET duration_analysis ==
            [total_duration |-> Q(audio_length, sr),
             speech_rate |->
                 IF audio_length > 0
                 THEN QDiv(QInt(Len(phoneme_sequence)), Q(audio_length, sr))
                 ELSE QInt(0),
             avg_phoneme_duration |->
                 IF phoneme_scores # <<>>
                 THEN QMean([i \in 1..Len(phoneme_scores) |->
                                QSub(phoneme_scores[i].end_time,
                                     phoneme_scores[i].start_time)])
                 ELSE QInt(0)]
        pitch_analysis ==
            IF "f0_mean" \in DOMAIN global_features
            THEN [average_f0 |-> global_features["f0_mean"],
                  f0_variation |-> global_features["f0_std"],
                  pitch_range |-> "normal"]
            ELSE <<>>
    IN  DetailedPronunciationResult(
            OverallScore(phoneme_scores, all_issues), phoneme_scores, word_scores,
            {all_issues[i] : i \in 1..Len(all_issues)},
            generate_detailed_suggestions(phoneme_scores, word_scores, all_issues,
                                          unique_poor, unique_fair),
            duration_analysis, pitch_analysis)

\* steps 6 to 9: tokens is reference_text.lower().split() before the lower()
AnalysisOfScores(audio_length, sr, tokens, phoneme_scores, global_features, unique_poor, unique_fair) ==
    AnalysisResult(
        audio_length, sr, text_to_phonemes(tokens), phoneme_scores,
        AllIssues(phoneme_scores),
        analyze_word_pronunciation(tokens, map_words_to_phonemes(tokens), phoneme_scores),
        global_features, unique_poor, unique_fair)

\* segment_features[i] is what extract_acoustic_features returns for the i-th
\* alignment, global_features what it returns for the whole buffer
analyze_pronunciation_detailed(audio_data, reference_text, inference_raises, global_features, segment_features, unique_poor, unique_fair, sr) ==
    IF audio_data.kind = "none"
    THEN \* len(None) raises inside force_align_ctc's handler, and again in the
         \* except branch of this function
         Raised("TypeError")
    ELSE IF reference_text.kind = "none"
    THEN \* None.lower() raises inside the try block
         Returned("DetailedPronunciationResult", DefaultResult(audio_data.length, sr))
    ELSE
    Returned("DetailedPronunciationResult",
        AnalysisOfScores(
            audio_data.length, sr, reference_text.tokens,
            AnalyzedPhonemeScores(audio_data.length, reference_text.tokens,
                                  inference_raises, segment_features, sr),
            global_features, unique_poor, unique_fair))

\* audio buffers given to analyze_pronunciation_detailed: None, empty,
\* 3 samples, 0.1 s and 1 s at 16 kHz
AnalyzeAudios ==
    {[kind |-> "none", length |-> 0]}
    \cup {[kind |-> "array", length |-> n] : n \in {0, 3, 1600, 16000}}

Text(tokens) == [kind |-> "str", tokens |-> tokens]

NoneText == [kind |-> "none", tokens |-> <<>>]

\* reference texts: None, "", "!!!", "the", "the cat", "The cat.", "she",
\* "this", "good", "see this", "in it is in it is"
ReferenceTexts ==
    {NoneText,
     Text(<<>>),
     Text(<< <<"!", "!", "!">> >>),
     Text(<< <<"t", "h", "e">> >>),
     Text(<< <<"t", "h", "e">>, <<"c", "a", "t">> >>),
     Text(<< <<"T", "h", "e">>, <<"c", "a", "t", ".">> >>),
     Text(<< <<"s", "h", "e">> >>),
     Text(<< <<"t", "h", "i", "s">> >>),
     Text(<< <<"g", "o", "o", "d">> >>),
     Text(<< <<"s", "e", "e">>, <<"t", "h", "i", "s">> >>),
     Text(<< <<"i", "n">>, <<"i", "t">>, <<"i", "s">>,
             <<"i", "n">>, <<"i", "t">>, <<"i", "s">> >>)}

\* most segments of one buffer whose features are chosen independently;
\* the choice repeats along the buffer
MaxSegFeatures == 2

\* sr: int = 16000
DefaultSampleRate == 16000

\* the longest phoneme sequence of ReferenceTexts
LongestReference ==
    LET lengths == {Len(text_to_phonemes(t.tokens)) : t \in ReferenceTexts}
    IN  CHOOSE n \in lengths : \A m \in lengths : m <= n

SegmentFeatureChoices ==
    {[i \in 1..LongestReference |-> c[((i - 1) % MaxSegFeatures) + 1]] :
        c \in [1..MaxSegFeatures -> ExtractOutputs]}

GlobalFeatureChoices ==
    {ExtractedFeatures(QInt(10), Q(5, 100), QInt(1200), Q(5, 100)), NoFeatures}

(***************************************************************************)
(* Inputs of score_phoneme_quality: a phoneme symbol, the features of its  *)
(* segment and its duration in seconds.                                    *)
(***************************************************************************)
\* features on both sides of every threshold the rules read, and {}
QualityFeatures ==
    {ExtractedFeatures(QInt(mfcc), Q(energy, 1000), QInt(centroid), Q(zcr, 100)) :
        mfcc \in {10, 25, 35}, energy \in {1, 7, 50},
        centroid \in {500, 2499, 2500, 3000}, zcr \in {5, 30}}
    \cup {NoFeatures}

\* the same features with another spectral_centroid_mean
WithCentroid(features, c) ==
    IF features = NoFeatures THEN features
    ELSE [features EXCEPT !.spectral_centroid_mean = c]

(***************************************************************************)
(* AcousticFeatureExtractor: the four sub-extractors and                   *)
(* extract_all_features.  A feature dict is a function from its keys to    *)
(* numbers; a value measured on the audio is held as 1, a default as 0.    *)
(* raises says whether a library call inside the try block of a            *)
(* sub-extractor throws; voiced whether yin finds a positive f0.           *)
(***************************************************************************)
F0Keys == {"f0_mean", "f0_std", "f0_median", "f0_range", "f0_slope", "voicing_rate"}

FormantKeys == {"f1", "f2", "f3", "f1_f2_ratio", "formant_bandwidth"}

SpectralKeys ==
    {"spectral_centroid_mean", "spectral_centroid_std", "spectral_bandwidth_mean",
     "spectral_bandwidth_std", "spectral_contrast_mean", "spectral_rolloff_mean",
     "mfcc_mean", "mfcc_std", "chroma_mean", "chroma_std"}

TemporalKeys ==
    {"rms_mean", "rms_std", "zcr_mean", "zcr_std", "energy_mean", "energy_std",
     "energy_max", "silence_ratio"}

Measured(keys) == [k \in keys |-> 1]

Zeroed(keys) == [k \in keys |-> 0]

\* the dict {}
EmptyDict == [k \in {} |-> 0]

extract_f0_features(audio_length, raises, voiced) ==
    IF raises THEN Zeroed(F0Keys)
    ELSE IF ~voiced THEN Zeroed(F0Keys)
    ELSE Measured(F0Keys)

\* lpc_order = 10; emphasized is as long as audio
extract_formant_features(audio_length, raises) ==
    IF raises THEN Zeroed(FormantKeys)
    ELSE IF audio_length > 10 THEN Measured(FormantKeys)
    ELSE Zeroed(FormantKeys)

extract_spectral_features(audio_length, raises) ==
    IF raises THEN EmptyDict ELSE Measured(SpectralKeys)

extract_temporal_features(audio_length, raises) ==
    IF raises THEN EmptyDict ELSE Measured(TemporalKeys)

\* dict.update
Update(features, other) ==
    [k \in DOMAIN features \cup DOMAIN other |->
        IF k \in DOMAIN other THEN other[k] ELSE features[k]]

\* throws is the set of sub-extractors in which a library call throws
extract_all_features(audio_length, throws, voiced) ==
    IF audio_length = 0 THEN EmptyDict
    ELSE Update(Update(Update(Update(EmptyDict,
             extract_f0_features(audio_length, "pitch" \in throws, voiced)),
             extract_formant_features(audio_length, "formant" \in throws)),
             extract_spectral_features(audio_length, "spectral" \in throws)),
             extract_temporal_features(audio_length, "temporal" \in throws))

SubExtractors == {"pitch", "formant", "spectral", "temporal"}

(***************************************************************************)
(* Inputs of analyze_word_pronunciation as analyze_pronunciation_detailed  *)
(* calls it: the words of a reference text, the mapping                    *)
(* map_words_to_phonemes gives for them, and the phoneme scores of steps 1 *)
(* to 5 on a buffer in which at most one segment differs from the others.  *)
(***************************************************************************)
\* the words of ReferenceTexts, and "from", "good from", "good good",
\* "nowhere"
WordTexts ==
    {t.tokens : t \in ReferenceTexts \ {NoneText}}
    \cup {<< <<"f", "r", "o", "m">> >>,
          << <<"g", "o", "o", "d">>, <<"f", "r", "o", "m">> >>,
          << <<"g", "o", "o", "d">>, <<"g", "o", "o", "d">> >>,
          << <<"n", "o", "w", "h", "e", "r", "e">> >>}

\* ExtractOutputs and a clear bright sound that is only slightly unstable
WordSegmentOutputs ==
    ExtractOutputs \cup {ExtractedFeatures(QInt(25), Q(5, 100), QInt(3000), Q(3, 10))}

\* the features of n segments of which at most one differs from the others
OneSegmentDiffers(n) ==
    {[i \in 1..n |-> IF i = j THEN one ELSE others] :
        j \in 0..n, one \in WordSegmentOutputs, others \in WordSegmentOutputs}

(***************************************************************************)
(* score_pronunciation and create_simple_detailed_result                   *)
(*                                                                         *)
(* The environment of a call: failure names the first step of the try      *)
(* block that throws for a reason outside the arguments (a missing         *)
(* dependency, a missing model directory or file, a failed model load, a   *)
(* failed inference), or "none"; levenshtein names the importable edit     *)
(* distance library, or "none"; PHONEME_SCORING_AVAILABLE is the module    *)
(* flag set at import; simple_score is the similarity score (score, before *)
(* it is clamped) computed from the transcription; analysis_raises says    *)
(* whether an                                                              *)
(* exception leaves the phoneme-level analysis.                            *)
(***************************************************************************)
Failures == {"none", "dependencies", "model_path", "model_file", "model_load", "inference"}

LevenshteinLibraries == {"Levenshtein", "python_Levenshtein", "none"}

\* score = 100 * similarity: the values probed.  The edit distance is taken
\* between the lower-cased strings and max_distance between the strings as
\* given, and lower() can lengthen a string, so the similarity can be
\* negative
SimpleScores == {QInt(-100), QInt(0), QInt(50), QInt(100)}

\* a plausible slip: the lower clamp on the similarity score is forgotten
FinalScore_no_floor(score) == QMin(score, QInt(100))

\* final_score = max(0, min(score, 100))
FinalScore(score) == QMax(QInt(0), QMin(score, QInt(100)))

create_simple_detailed_result(score, PHONEME_SCORING_AVAILABLE) ==
    IF ~PHONEME_SCORING_AVAILABLE
    THEN Returned("dict",
             [overall_score |-> score, phoneme_scores |-> <<>>,
              pronunciation_issues |-> {},
              improvement_suggestions |-> <<[kind |-> "check_rhythm_and_clarity"]>>,
              detailed_available |-> FALSE])
    ELSE Returned("DetailedPronunciationResult",
             DetailedPronunciationResult(
                 score, <<>>, <<>>, {[kind |-> "no_phoneme_analysis"]},
                 <<[kind |-> "practice_clarity"]>>,
                 [total_duration |-> QInt(0)], <<>>))

\* lines 150-153: return final_score
NoLevenshteinReturn(final_score, detailed, PHONEME_SCORING_AVAILABLE) ==
    Returned("float", final_score)

\* the except branch of score_pronunciation: every exception is re-raised
\* as RuntimeError
ScoringFailed == Raised("RuntimeError")

\* analysis is the outcome of analyze_pronunciation_detailed on the same
\* audio and text
score_pronunciation(audio_data, reference_text, detailed, failure, levenshtein, PHONEME_SCORING_AVAILABLE, simple_score, analysis_raises, analysis) ==
    IF failure = "dependencies" THEN ScoringFailed
    ELSE IF audio_data.kind = "none" \/ audio_data.length = 0 THEN ScoringFailed
    ELSE IF failure \in {"model_path", "model_file", "model_load", "inference"}
    THEN ScoringFailed
    ELSE IF reference_text.kind = "none"
    THEN \* reference_text.lower() raises in either similarity computation
         ScoringFailed
    ELSE IF levenshtein = "none"
    THEN NoLevenshteinReturn(FinalScore(simple_score), detailed, PHONEME_SCORING_AVAILABLE)
    ELSE LET final_score == FinalScore(simple_score)
         IN  IF detailed /\ PHONEME_SCORING_AVAILABLE
             THEN IF analysis_raises \/ analysis.outcome = "raise"
                  THEN create_simple_detailed_result(final_score, PHONEME_SCORING_AVAILABLE)
                  ELSE Returned("DetailedPronunciationResult",
                           [analysis.value EXCEPT
                               !.overall_score =
                                   QMax(analysis.value.overall_score,
                                        QMul(final_score, Q(8, 10)))])
             ELSE IF detailed
             THEN create_simple_detailed_result(final_score, PHONEME_SCORING_AVAILABLE)
             ELSE Returned("float", final_score)

\* audio buffers given to score_pronunciation: None, empty, 0.1 s
ScoringAudios ==
    {[kind |-> "none", length |-> 0], [kind |-> "array", length |-> 0],
     [kind |-> "array", length |-> 1600]}

\* reference texts given to score_pronunciation: None, "the", "see this"
ScoringTexts ==
    {NoneText,
     Text(<< <<"t", "h", "e">> >>),
     Text(<< <<"s", "e", "e">>, <<"t", "h", "i", "s">> >>)}

\* every segment of the buffer has the same features
UniformSegmentFeatures == {[i \in 1..LongestReference |-> f] : f \in ExtractOutputs}

(***************************************************************************)
(* State machine.                                                          *)
(***************************************************************************)
Init ==
    /\ op = "idle"
    /\ args = <<>>
    /\ ret = <<>>

CallUniform ==
    /\ op = "idle"
    /\ \E audio_length \in AudioLengths, sr \in SampleRates, ph \in PhonemeSeqs :
           /\ op' = "simple_uniform_alignment"
           /\ args' = [audio_length |-> audio_length, phoneme_sequence |-> ph, sr |-> sr]
           /\ ret' = simple_uniform_alignment(audio_length, ph, sr)

CallDurationWeighted ==
    /\ op = "idle"
    /\ \E audio_length \in AudioLengths, sr \in SampleRates, ph \in PhonemeSeqs :
           /\ op' = "duration_weighted_alignment"
           /\ args' = [audio_length |-> audio_length, phoneme_sequence |-> ph, sr |-> sr]
           /\ ret' = duration_weighted_alignment(audio_length, ph, sr)

CallEnergyBased ==
    /\ op = "idle"
    /\ \E audio_length \in EnergyAudioLengths, sr \in SampleRates,
          ph \in EnergyPhonemeSeqs, raises \in BOOLEAN :
         \E change_points \in SUBSET (0..(DiffLength(audio_length) - 1)) :
           /\ op' = "energy_based_alignment"
           /\ args' = [audio_length |-> audio_length, change_points |-> change_points,
                       raises |-> raises, phoneme_sequence |-> ph, sr |-> sr]
           /\ ret' = energy_based_alignment(audio_length, change_points, raises, ph, sr)

CallForceAlign ==
    /\ op = "idle"
    /\ \E audio_length \in AudioLengths, sr \in SampleRates, ph \in PhonemeSeqs,
          inference_raises \in BOOLEAN :
         /\ op' = "force_align_ctc"
         /\ args' = [audio_length |-> audio_length, phoneme_sequence |-> ph,
                     inference_raises |-> inference_raises, sr |-> sr]
         /\ ret' = force_align_ctc(audio_length, ph, inference_raises, sr)

\* two calls of get_quality_level, kept side by side to compare the labels
CallQualityLevel ==
    /\ op = "idle"
    /\ \E a \in ScoreProbes, b \in ScoreProbes :
           /\ op' = "get_quality_level"
           /\ args' = <<a, b>>
           /\ ret' = <<get_quality_level(a), get_quality_level(b)>>

CallAnalyzeDetailed ==
    /\ op = "idle"
    /\ \E audio_data \in AnalyzeAudios, reference_text \in ReferenceTexts,
          inference_raises \in BOOLEAN, global_features \in GlobalFeatureChoices,
          segment_features \in SegmentFeatureChoices :
         \E phoneme_scores \in
                {IF audio_data.kind = "none" \/ reference_text.kind = "none" THEN <<>>
                 ELSE AnalyzedPhonemeScores(audio_data.length, reference_text.tokens,
                                            inference_raises, segment_features,
                                            DefaultSampleRate)} :
             \E unique_poor \in Listed(PhonemesOf(SelectSeq(phoneme_scores, IsPoor)), 6),
                unique_fair \in Listed(PhonemesOf(SelectSeq(phoneme_scores, IsFair)), 4) :
               /\ op' = "analyze_pronunciation_detailed"
               /\ args' = [audio_data |-> audio_data, reference_text |-> reference_text,
                           inference_raises |-> inference_raises,
                           global_features |-> global_features,
                           segment_features |-> segment_features,
                           sr |-> DefaultSampleRate]
               /\ ret' = analyze_pronunciation_detailed(
                             audio_data, reference_text, inference_raises,
                             global_features, segment_features,
                             unique_poor, unique_fair, DefaultSampleRate)

CallScorePronunciation ==
    /\ op = "idle"
    /\ \E audio_data \in ScoringAudios, reference_text \in ScoringTexts,
          detailed \in BOOLEAN, failure \in Failures,
          levenshtein \in LevenshteinLibraries, available \in BOOLEAN,
          simple_score \in SimpleScores, analysis_raises \in BOOLEAN,
          segment_features \in UniformSegmentFeatures :
         \E phoneme_scores \in
                {IF audio_data.kind = "none" \/ reference_text.kind = "none" THEN <<>>
                 ELSE AnalyzedPhonemeScores(audio_data.length, reference_text.tokens,
                                            FALSE, segment_features, DefaultSampleRate)} :
             \E unique_poor \in Listed(PhonemesOf(SelectSeq(phoneme_scores, IsPoor)), 6),
                unique_fair \in Listed(PhonemesOf(SelectSeq(phoneme_scores, IsFair)), 4) :
               /\ op' = "score_pronunciation"
               /\ args' = [audio_data |-> audio_data, reference_text |-> reference_text,
                           detailed |-> detailed, failure |-> failure,
                           levenshtein |-> levenshtein,
                           PHONEME_SCORING_AVAILABLE |-> available,
                           simple_score |-> simple_score,
                           analysis_raises |-> analysis_raises,
                           segment_features |-> segment_features]
               /\ ret' = score_pronunciation(
                             audio_data, reference_text, detailed, failure, levenshtein,
                             available, simple_score, analysis_raises,
                             analyze_pronunciation_detailed(
                                 audio_data, reference_text, FALSE, NoFeatures,
                                 segment_features, unique_poor, unique_fair,
                                 DefaultSampleRate))

\* one call, and beside it the call on the same inputs with
\* spectral_centroid_mean = 2500 (baseline); the phonemes are the four
\* high-frequency fricatives, a voiced sibilant, a low vowel, a high vowel,
\* a stop, a nasal, the lexicon symbols outside the tables and a character
\* passed through by the per-character fallback; the durations lie in and
\* on the borders of every tier of 's' (0.08 s to 0.18 s)
CallScorePhonemeQuality ==
    /\ op = "idle"
    /\ \E phoneme \in {"s", "sh", "f", "th", "z", "ae", "ih", "t", "n",
                         "schwa", "oo", "ei", "ou", "c"},
          features \in QualityFeatures,
          duration \in {Q(1, 100), Q(56, 1000), Q(7, 100), Q(8, 100), Q(1, 10),
                        Q(18, 100), Q(2, 10), Q(27, 100), Q(3, 10)} :
         /\ op' = "score_phoneme_quality"
         /\ args' = [phoneme |-> phoneme, features |-> features, duration |-> duration]
         /\ ret' = [value |-> score_phoneme_quality(phoneme, features, duration),
                    baseline |-> score_phoneme_quality(
                                     phoneme, WithCentroid(features, QInt(2500)), duration)]

\* buffers of 0, 1, 10, 11, 512 and 1600 samples
CallExtractAllFeatures ==
    /\ op = "idle"
    /\ \E audio_length \in {0, 1, 10, 11, 512, 1600}, throws \in SUBSET SubExtractors,
          voiced \in BOOLEAN :
         /\ op' = "extract_all_features"
         /\ args' = [audio_length |-> audio_length, throws |-> throws, voiced |-> voiced]
         /\ ret' = Returned("dict", extract_all_features(audio_length, throws, voiced))

\* the buffers have 0 and 3 samples, 0.4 s, 0.7 s and 1 s at 16 kHz; ret
\* keeps, beside the list returned, the values the local
\* current_phoneme_index takes (cursor_trace)
CallAnalyzeWords ==
    /\ op = "idle"
    /\ \E words \in WordTexts, audio_length \in {0, 3, 6400, 11200, 16000} :
         \E segment_features \in OneSegmentDiffers(Len(text_to_phonemes(words))) :
            \E phoneme_scores \in
                   {AnalyzedPhonemeScores(audio_length, words, FALSE, segment_features,
                                          DefaultSampleRate)} :
               /\ op' = "analyze_word_pronunciation"
               /\ args' = [words |-> words,
                           word_phoneme_mapping |-> map_words_to_phonemes(words),
                           phoneme_scores |-> phoneme_scores]
               /\ ret' = Returned("list",
                             analyze_word_pronunciation(
                                 words, map_words_to_phonemes(words), phoneme_scores))
                         @@ [cursor_trace |->
                                 CursorTrace(words, map_words_to_phonemes(words),
                                             phoneme_scores, 1, 0)]

\* step 7 of analyze_pronunciation_detailed on a list of PhonemeScore values,
\* run a second time on a list with the same score, confidence, quality and
\* issues; ret keeps the locals penalty (after the poor-ratio rule and at
\* the end) and overall_score (after the clamp and at the end)
AggregateOverallScore ==
    /\ op = "idle"
    /\ \E n \in 1..MaxScores, k \in 0..MaxScores, first \in ScoredKinds,
          others \in ScoredKinds,
          other \in {[phoneme |-> "s", span |-> Q(1, 10)],
                     [phoneme |-> "z", span |-> Q(1, 5)]} :
         /\ k <= n
         /\ (k = 0 \/ first # others)
         /\ \E phoneme_scores \in {ScoreList(n, k, first, others, "s", Q(1, 10))},
               same_scores \in {ScoreList(n, k, first, others, other.phoneme, other.span)} :
               /\ op' = "overall_score"
               /\ args' = [phoneme_scores |-> phoneme_scores,
                           all_issues |-> AllIssues(phoneme_scores),
                           same_scores |-> same_scores]
               /\ ret' = [poor_ratio_penalty |->
                              PoorRatioPenalty(PoorRatio(phoneme_scores)),
                          penalty |-> Penalty(phoneme_scores, AllIssues(phoneme_scores)),
                          clamped |-> ClampedScore(phoneme_scores, AllIssues(phoneme_scores)),
                          overall_score |->
                              OverallScore(phoneme_scores, AllIssues(phoneme_scores)),
                          again |-> OverallScore(same_scores, AllIssues(same_scores))]

NextAlign ==
    \/ CallUniform
    \/ CallDurationWeighted
    \/ CallEnergyBased

NextQuality ==
    \/ CallQualityLevel

NextAnalyze ==
    \/ CallAnalyzeDetailed

\* the two scoring entry points
NextEntry ==
    \/ NextAnalyze
    \/ CallScorePronunciation

NextFallback ==
    \/ CallForceAlign
    \/ CallEnergyBased

Next ==
    \/ NextAlign
    \/ NextQuality
    \/ NextEntry
    \/ NextFallback
    \/ AggregateOverallScore
    \/ CallAnalyzeWords
    \/ CallExtractAllFeatures
    \/ CallScorePhonemeQuality

\* the aligners alone
SpecAlign == Init /\ [][NextAlign]_vars

\* the quality label alone
SpecQuality == Init /\ [][NextQuality]_vars

\* the detailed analysis alone
SpecAnalyze == Init /\ [][NextAnalyze]_vars

\* the scoring entry points
SpecEntry == Init /\ [][NextEntry]_vars

\* the alignment strategies that fall back on the uniform one
SpecFallback == Init /\ [][NextFallback]_vars

\* the scoring of one phoneme alone
SpecPhoneme == Init /\ [][CallScorePhonemeQuality]_vars

\* the acoustic feature extractor alone
SpecExtract == Init /\ [][CallExtractAllFeatures]_vars

\* the word-level analysis alone
SpecWords == Init /\ [][CallAnalyzeWords]_vars

\* the aggregation of phoneme scores alone
SpecAggregate == Init /\ [][AggregateOverallScore]_vars

Spec == Init /\ [][Next]_vars

(***************************************************************************)
(* Alignment contract, stated on a returned segment list.                  *)
(***************************************************************************)
SameOrder(segs, ph) ==
    /\ Len(segs) = Len(ph)
    /\ \A i \in 1..Len(ph) : segs[i].phoneme = ph[i]

Contiguous(segs) ==
    \A i \in 1..(Len(segs) - 1) : segs[i].end_time = segs[i + 1].start_time

StartsAtZero(segs) == segs[1].start_time = QInt(0)

EndsAt(segs, t) == segs[Len(segs)].end_time = t

NonEmptySpans(segs) ==
    \A i \in 1..Len(segs) : QLt(segs[i].start_time, segs[i].end_time)

C2_WeightedSumsToTotal ==
    (op = "duration_weighted_alignment" /\ Len(args.phoneme_sequence) >= 1) =>
        LET N == Len(args.phoneme_sequence)
            total == Q(args.audio_length, args.sr)
            spans == [i \in 1..N |-> QSub(ret[i].end_time, ret[i].start_time)]
        IN  /\ QSumTo(spans, N) = total
            /\ EndsAt(ret, total)

\* C3: for every non-empty phoneme sequence, duration_weighted_alignment
\* returns one segment per phoneme in input order, the first starting at 0,
\* each ending where the next starts, and start < end for every segment.
C3_WeightedMonotonicGapless ==
    (op = "duration_weighted_alignment" /\ Len(args.phoneme_sequence) >= 1) =>
        /\ SameOrder(ret, args.phoneme_sequence)
        /\ StartsAtZero(ret)
        /\ Contiguous(ret)
        /\ NonEmptySpans(ret)

\* "the cat" over a 1.0 s buffer: no span is clamped, the last end is 1.0 s
C3_Witness ==
    /\ op = "duration_weighted_alignment"
    /\ args.phoneme_sequence = TheCat
    /\ args.audio_length = 16000
    /\ args.sr = 16000
    /\ ret[1].end_time = Q(7, 41)
    /\ ret[5].start_time = Q(35, 41)
    /\ ret[5].end_time = QInt(1)

\* energy_based_alignment returned its own segmentation, not the uniform one
EnergyDidNotFallBack ==
    /\ ~args.raises
    /\ ~(Cardinality(args.change_points) < Len(args.phoneme_sequence) - 1)

\* C4: for a non-empty buffer and N >= 1 phonemes, the segments of
\* energy_based_alignment, when it does not fall back, are in input order,
\* contiguous, start at 0, end at the total duration, and every segment has
\* start < end, a change point at frame 0 (time 0.0) included.
C4_EnergyContract ==
    (/\ op = "energy_based_alignment"
     /\ Len(args.phoneme_sequence) >= 1
     /\ args.audio_length > 0
     /\ EnergyDidNotFallBack) =>
        /\ SameOrder(ret, args.phoneme_sequence)
        /\ StartsAtZero(ret)
        /\ Contiguous(ret)
        /\ EndsAt(ret, Q(args.audio_length, args.sr))
        /\ NonEmptySpans(ret)

\* the order of the quality labels
QualityRank(level) ==
    CASE level = "poor" -> 0 [] level = "fair" -> 1
      [] level = "good" -> 2 [] level = "excellent" -> 3

\* C6: get_quality_level is total and monotonic: excellent iff score >= 90,
\* good iff 75 <= score < 90, fair iff 60 <= score < 75, poor iff score < 60,
\* and for a <= b the label of b is never worse than the label of a.
C6_QualityBreakpoints ==
    op = "get_quality_level" =>
        /\ \A i \in 1..2 :
              /\ ret[i] \in {"excellent", "good", "fair", "poor"}
              /\ ret[i] = "excellent" <=> QLe(QInt(90), args[i])
              /\ ret[i] = "good" <=> (QLe(QInt(75), args[i]) /\ QLt(args[i], QInt(90)))
              /\ ret[i] = "fair" <=> (QLe(QInt(60), args[i]) /\ QLt(args[i], QInt(75)))
              /\ ret[i] = "poor" <=> QLt(args[i], QInt(60))
        /\ QLe(args[1], args[2]) => QualityRank(ret[1]) <= QualityRank(ret[2])

\* the scenario: 65 -> fair and 80 -> good, in that order
C6_Witness ==
    /\ op = "get_quality_level"
    /\ args = <<QInt(65), QInt(80)>>
    /\ ret = <<"fair", "good">>

\* the PhonemeScore records of a returned analysis
ReturnedPhonemeScores ==
    IF op = "analyze_pronunciation_detailed" /\ ret.outcome = "return"
    THEN ret.value.phoneme_scores ELSE <<>>

\* C5: every PhonemeScore created by analyze_pronunciation_detailed has
\* 0 <= score <= 100 and 0.3 <= confidence <= 1.0, with confidence equal to
\* min(1.0, max(0.3, 1 - 0.1 * number of issues of that phoneme)).
C5_ScoreAndConfidenceRanges ==
    \A i \in 1..Len(ReturnedPhonemeScores) :
        LET ps == ReturnedPhonemeScores[i]
            tenths == 10 - Len(ps.issues)
        IN  /\ 0 <= ps.score /\ ps.score <= 100
            /\ QLe(Q(3, 10), ps.confidence) /\ QLe(ps.confidence, QInt(1))
            /\ ps.confidence =
                   Q(IF tenths < 3 THEN 3 ELSE IF tenths > 10 THEN 10 ELSE tenths, 10)

\* a phoneme whose deductions exceed the base score: 's', far too short,
\* unstable, weak, dull and without friction
C5_Witness ==
    \E i \in 1..Len(ReturnedPhonemeScores) :
        /\ ReturnedPhonemeScores[i].phoneme = "s"
        /\ Len(ReturnedPhonemeScores[i].issues) = 5
        /\ ReturnedPhonemeScores[i].score = 0
        /\ ReturnedPhonemeScores[i].confidence = Q(1, 2)

\* C7: analyze_pronunciation_detailed on a zero-length audio buffer, with
\* any reference text, returns overall_score 0, no phoneme scores, no word
\* scores and a non-empty pronunciation_issues.
C7_EmptyAudioDefaultResult ==
    (/\ op = "analyze_pronunciation_detailed"
     /\ args.audio_data.kind = "array"
     /\ args.audio_data.length = 0) =>
        /\ ret.outcome = "return"
        /\ ret.value.overall_score = QInt(0)
        /\ ret.value.phoneme_scores = <<>>
        /\ ret.value.word_scores = <<>>
        /\ ret.value.pronunciation_issues # {}

\* C8: when the reference text yields no phonemes and the audio is not
\* empty, analyze_pronunciation_detailed returns, without raising,
\* overall_score 0, no phoneme scores, no word scores and exactly one entry
\* in pronunciation_issues.
C8_NoPhonemesDefaultResult ==
    (/\ op = "analyze_pronunciation_detailed"
     /\ args.audio_data.kind = "array"
     /\ args.audio_data.length > 0
     /\ args.reference_text.kind = "str"
     /\ text_to_phonemes(args.reference_text.tokens) = <<>>) =>
        /\ ret.outcome = "return"
        /\ ret.value.overall_score = QInt(0)
        /\ ret.value.phoneme_scores = <<>>
        /\ ret.value.word_scores = <<>>
        /\ Cardinality(ret.value.pronunciation_issues) = 1

\* C9: no failure inside score_pronunciation or
\* analyze_pronunciation_detailed reaches the caller as an exception: every
\* call ends by returning a float or a DetailedPronunciationResult.
C9_NoExceptionReachesCaller ==
    op \in {"score_pronunciation", "analyze_pronunciation_detailed"} =>
        /\ ret.outcome = "return"
        /\ ret.type \in {"float", "DetailedPronunciationResult"}

\* C10: score_pronunciation called with detailed=True, when it returns,
\* returns a DetailedPronunciationResult; a float is returned only when
\* detailed=False.
C10_DetailedReturnsDetailedResult ==
    (op = "score_pronunciation" /\ ret.outcome = "return") =>
        /\ args.detailed => ret.type = "DetailedPronunciationResult"
        /\ ret.type = "float" => ~args.detailed

\* two lists agree on score, confidence, quality and issues, position by
\* position
SameScoredFields(a, b) ==
    /\ Len(a) = Len(b)
    /\ \A i \in 1..Len(a) :
         /\ a[i].score = b[i].score
         /\ a[i].confidence = b[i].confidence
         /\ a[i].quality = b[i].quality
         /\ a[i].issues = b[i].issues

C12_PoorRatioContribution ==
    op = "overall_score" =>
        LET n == Len(args.phoneme_scores)
            poor == Cardinality({i \in 1..n : args.phoneme_scores[i].quality = "poor"})
        IN  /\ 10 * poor > 3 * n => ret.poor_ratio_penalty = 15
            /\ (10 * poor > 2 * n /\ 10 * poor <= 3 * n) => ret.poor_ratio_penalty = 10
            /\ 10 * poor <= 2 * n => ret.poor_ratio_penalty = 0
            /\ ret.penalty >= ret.poor_ratio_penalty
            /\ (n = 10 /\ poor = 4) => ret.penalty >= 15

\* C12 witness: ten phoneme scores of which four are poor
C12_Witness ==
    /\ op = "overall_score"
    /\ Len(args.phoneme_scores) = 10
    /\ Len(SelectSeq(args.phoneme_scores, IsPoor)) = 4
    /\ ret.poor_ratio_penalty = 15
    /\ ret.penalty >= 15

\* the conditions of the two final adjustments, from the list and its issues
FirstCapCondition ==
    \/ 10 * Len(SelectSeq(args.phoneme_scores, IsPoor)) > Len(args.phoneme_scores)
    \/ Len(SelectSeq(args.all_issues, SevereIssue)) > 1

SecondCapCondition ==
    10 * Len(SelectSeq(args.phoneme_scores, IsPoor)) > 2 * Len(args.phoneme_scores)

C14_OverallScoreRange ==
    (/\ op \in {"score_pronunciation", "analyze_pronunciation_detailed"}
     /\ ret.outcome = "return"
     /\ ret.type = "DetailedPronunciationResult") =>
        /\ QLe(QInt(0), ret.value.overall_score)
        /\ QLe(ret.value.overall_score, QInt(100))

\* C14 witness: a detailed score_pronunciation call whose phoneme analysis
\* returned phoneme scores and whose overall_score was raised to 0.8 times a
\* simple score of 100
C14_Witness ==
    /\ op = "score_pronunciation"
    /\ args.detailed
    /\ ret.outcome = "return"
    /\ ret.type = "DetailedPronunciationResult"
    /\ ret.value.phoneme_scores # <<>>
    /\ args.simple_score = QInt(100)
    /\ ret.value.overall_score = QInt(80)

\* the sentinel entry of a word without resolved phoneme scores
IsSentinel(entry) ==
    /\ entry.score = QInt(0)
    /\ entry.quality = "unknown"
    /\ entry.phoneme_scores = <<>>
    /\ Cardinality(entry.issues) = 1
    /\ entry.needs_improvement

\* C15: analyze_word_pronunciation returns, without raising, exactly one
\* entry per word of the word list, in word order; a word for which no
\* phoneme score is resolved (no phoneme scores at all, no expected phoneme,
\* no expected symbol among the scored ones, or nothing found from the
\* cursor on) gets the sentinel entry: score 0, quality 'unknown', empty
\* phoneme_scores, exactly one issue, needs_improvement true.
C15_OneEntryPerWord ==
    op = "analyze_word_pronunciation" =>
        /\ ret.outcome = "return"
        /\ Len(ret.value) = Len(args.words)
        /\ \A i \in 1..Len(args.words) :
             LET entry == ret.value[i]
                 scored == {args.phoneme_scores[k].phoneme :
                               k \in 1..Len(args.phoneme_scores)}
                 expected == {entry.phonemes[k] : k \in 1..Len(entry.phonemes)}
             IN  /\ entry.word = CleanWord(args.words[i])
                 /\ entry.phonemes = args.word_phoneme_mapping[entry.word]
                 /\ expected \cap scored = {} => IsSentinel(entry)
                 /\ entry.phoneme_scores = <<>> => IsSentinel(entry)
                 /\ entry.phoneme_scores # <<>> => entry.quality # "unknown"

\* C15 witness: two words and a non-empty score sequence; the first word is
\* resolved, the second one gets the sentinel entry
C15_Witness ==
    /\ op = "analyze_word_pronunciation"
    /\ Len(args.words) = 2
    /\ Len(ret.value) = 2
    /\ args.phoneme_scores # <<>>
    /\ ret.value[1].phoneme_scores # <<>>
    /\ ret.value[2].phonemes # <<>>
    /\ IsSentinel(ret.value[2])

\* of a returned word entry: the mean of score / quality weight over its
\* phoneme scores
EntryWeightedMean(entry) ==
    QMean([i \in 1..Len(entry.phoneme_scores) |->
              QDiv(QInt(entry.phoneme_scores[i].score),
                   WordQualityWeight(entry.phoneme_scores[i].quality))])

\* of a returned word entry: how many of its phoneme scores carry at least
\* one severe issue, and how many severe issues they carry together
EntrySevereCounts(entry) ==
    LET severe(i) == SelectSeq(entry.phoneme_scores[i].issues, SevereWordIssue)
    IN  [phonemes |-> Cardinality({i \in 1..Len(entry.phoneme_scores) : severe(i) # <<>>}),
         issues |-> Len(Flatten([i \in 1..Len(entry.phoneme_scores) |-> severe(i)]))]

\* C19: the 0.85 penalty is applied to a word's quality-weighted mean
\* exactly when the number of the word's resolved phonemes that carry at
\* least one severe issue exceeds 0.3 times the number of the word's
\* phonemes; a phoneme with several severe issues counts once.
C19_PenaltyCountsPhonemes ==
    op = "analyze_word_pronunciation" =>
        \A i \in 1..Len(ret.value) :
            ret.value[i].phoneme_scores # <<>> =>
                ret.value[i].score =
                    Round1(IF 10 * EntrySevereCounts(ret.value[i]).phonemes
                                  > 3 * Len(ret.value[i].phonemes)
                           THEN QMul(EntryWeightedMean(ret.value[i]), Q(85, 100))
                           ELSE EntryWeightedMean(ret.value[i]))

\* of a returned word entry: the score before rounding, the penalty applied
\* when the severe issues outnumber 0.3 times the word's phonemes
EntryFinalScore(entry) ==
    IF 10 * EntrySevereCounts(entry).issues > 3 * Len(entry.phonemes)
    THEN QMul(EntryWeightedMean(entry), Q(85, 100))
    ELSE EntryWeightedMean(entry)

\* C20: for every word entry with at least one resolved phoneme score,
\* needs_improvement is true exactly when the final score is below 70 or one
\* of the word's issues is severe, and quality is get_quality_level of that
\* final score.
C20_NeedsImprovement ==
    op = "analyze_word_pronunciation" =>
        \A i \in 1..Len(ret.value) :
            ret.value[i].phoneme_scores # <<>> =>
                /\ ret.value[i].needs_improvement <=>
                       \/ QLt(EntryFinalScore(ret.value[i]), QInt(70))
                       \/ \E issue \in ret.value[i].issues : SevereWordIssue(issue)
                /\ ret.value[i].quality = get_quality_level(EntryFinalScore(ret.value[i]))
                /\ ret.value[i].score = Round1(EntryFinalScore(ret.value[i]))

\* C20 witness: a word whose final score is at least 70 and which needs
\* improvement because of a severe issue alone
C20_Witness ==
    /\ op = "analyze_word_pronunciation"
    /\ \E i \in 1..Len(ret.value) :
         /\ ret.value[i].phoneme_scores # <<>>
         /\ QLe(QInt(70), EntryFinalScore(ret.value[i]))
         /\ \E issue \in ret.value[i].issues : SevereWordIssue(issue)
         /\ ret.value[i].needs_improvement

\* the keys of a sub-extractor's group
GroupKeys(group) ==
    CASE group = "pitch" -> F0Keys [] group = "formant" -> FormantKeys
      [] group = "spectral" -> SpectralKeys [] group = "temporal" -> TemporalKeys

\* C16: for a non-empty buffer and any set of throwing sub-extractors,
\* extract_all_features returns a mapping that holds every feature key of
\* every group, the keys of each failed group with value zero; the mapping
\* is empty only for a buffer of length 0.
C16_AllKeysPresent ==
    op = "extract_all_features" =>
        /\ ret.outcome = "return"
        /\ (ret.value = EmptyDict) <=> (args.audio_length = 0)
        /\ args.audio_length > 0 =>
             /\ DOMAIN ret.value = UNION {GroupKeys(g) : g \in SubExtractors}
             /\ \A g \in args.throws : \A k \in GroupKeys(g) : ret.value[k] = 0

\* C17: score_phoneme_quality on s, sh, f or th with spectral_centroid_mean
\* below 2500 reports the high-frequency issue for that phoneme, takes 20
\* points more off the score than for the same inputs with a centroid of at
\* least 2500 (so the clamped scores differ by 20, or the lower one is 0),
\* and the quality label of the score is fair or poor.
C17_FricativeCentroid ==
    (/\ op = "score_phoneme_quality"
     /\ args.phoneme \in {"s", "sh", "f", "th"}
     /\ args.features # NoFeatures
     /\ QLt(args.features.spectral_centroid_mean, QInt(2500))) =>
        /\ \E i \in 1..Len(ret.value.issues) :
             ret.value.issues[i] = [kind |-> "high_frequency_deficient",
                                    phoneme |-> args.phoneme]
        /\ Len(ret.value.issues) = Len(ret.baseline.issues) + 1
        /\ ret.value.score =
               IF ret.baseline.score > 20 THEN ret.baseline.score - 20 ELSE 0
        /\ get_quality_level(QInt(ret.value.score)) \in {"fair", "poor"}

\* C17 witness: 's' with a centroid of 500 and nothing else wrong: score 60
\* against a baseline of 80, quality fair
C17_Witness ==
    /\ op = "score_phoneme_quality"
    /\ args.phoneme = "s"
    /\ args.features # NoFeatures
    /\ args.features.spectral_centroid_mean = QInt(500)
    /\ ret.baseline.score = 80
    /\ ret.baseline.issues = <<>>
    /\ ret.value.score = 60
    /\ Len(ret.value.issues) = 1
    /\ get_quality_level(QInt(ret.value.score)) = "fair"

\* C18: force_align_ctc returns, whether or not model inference raised, the
\* segment list of simple_uniform_alignment for the same audio length, sample
\* rate and phoneme sequence; energy_based_alignment returns that list when
\* a step raises or fewer than N-1 change points are found; both return the
\* empty list for an empty phoneme sequence.
C18_FallbackIsUniform ==
    /\ op = "force_align_ctc" =>
           ret = simple_uniform_alignment(args.audio_length, args.phoneme_sequence, args.sr)
    /\ (/\ op = "energy_based_alignment"
        /\ \/ args.raises
           \/ Cardinality(args.change_points) < Len(args.phoneme_sequence) - 1) =>
           ret = simple_uniform_alignment(args.audio_length, args.phoneme_sequence, args.sr)
    /\ (/\ op \in {"force_align_ctc", "energy_based_alignment"}
        /\ args.phoneme_sequence = <<>>) => ret = <<>>

\* C18 witness: model inference raised inside force_align_ctc and several
\* segments of equal length were returned
C18_Witness ==
    /\ op = "force_align_ctc"
    /\ args.inference_raises
    /\ args.audio_length > 0
    /\ Len(ret) >= 2
    /\ \A i \in 1..Len(ret) :
         QSub(ret[i].end_time, ret[i].start_time) = QSub(ret[1].end_time, ret[1].start_time)

\* the lines of the word block, and the entries that need improvement
WordLines(suggestions) ==
    LET is_word(line) == line.kind = "word"
    IN  SelectSeq(suggestions, is_word)

\* C21: the word block lists at most 5 words, each followed by at most 2 of
\* its suggestions, and the listed words are the worst-scoring ones among
\* the words that need improvement: no omitted word has a lower score than
\* a listed word.
C21_WorstWordsListed ==
    (op = "analyze_pronunciation_detailed" /\ ret.outcome = "return") =>
        LET lines == ret.value.improvement_suggestions
            listed == WordLines(lines)
            needing == SelectSeq(ret.value.word_scores, NeedsImprovement)
        IN  /\ Len(listed) <= 5
            /\ \A i \in 1..Len(lines) :
                 (i + 2 <= Len(lines) /\ lines[i].kind = "word_suggestion"
                     /\ lines[i + 1].kind = "word_suggestion") =>
                     lines[i + 2].kind # "word_suggestion"
            /\ \A j \in 1..Len(listed) :
                 Cardinality({i \in 1..Len(needing) : QLt(needing[i].score, listed[j].score)})
                   = Cardinality({i \in 1..Len(listed) : QLt(listed[i].score, listed[j].score)})

\* the practice-advice tier of the bracket a score falls in
TierOf(score) ==
    IF QLt(score, QInt(60)) THEN "basic_practice_header"
    ELSE IF QLt(score, QInt(75)) THEN "improve_practice_header"
    ELSE IF QLt(score, QInt(85)) THEN "refine_practice_header"
    ELSE "keep_up_header"

TierHeaders ==
    {"basic_practice_header", "improve_practice_header",
     "refine_practice_header", "keep_up_header"}

\* C22: the suggestions contain exactly one of the four practice-advice
\* tiers, the one of the bracket (< 60, < 75, < 85, otherwise) of the
\* overall_score reported in the same DetailedPronunciationResult.
C22_TierFollowsOverallScore ==
    (op = "analyze_pronunciation_detailed" /\ ret.outcome = "return"
        /\ ret.value.phoneme_scores # <<>>) =>
        LET lines == ret.value.improvement_suggestions
        IN  /\ Cardinality({i \in 1..Len(lines) : lines[i].kind \in TierHeaders}) = 1
            /\ \E i \in 1..Len(lines) : lines[i].kind = TierOf(ret.value.overall_score)

\* C23: the phoneme rollup has a poor-phonemes line whenever a phoneme is
\* rated poor, followed by a fair-phonemes line whenever a phoneme is rated
\* fair, also when both classes are non-empty; a line is omitted only when
\* its class is empty.
C23_PoorAndFairLines ==
    (op = "analyze_pronunciation_detailed" /\ ret.outcome = "return"
        /\ ret.value.phoneme_scores # <<>>) =>
        LET lines == ret.value.improvement_suggestions
            scores == ret.value.phoneme_scores
            rated(q) == \E i \in 1..Len(scores) : scores[i].quality = q
            at(kind) == {i \in 1..Len(lines) : lines[i].kind = kind}
        IN  /\ rated("poor") <=> at("poor_phonemes") # {}
            /\ rated("fair") <=> at("fair_phonemes") # {}
            /\ \A i \in at("poor_phonemes"), j \in at("fair_phonemes") : i < j

DurationKinds ==
    {"duration_far_too_short", "duration_short", "duration_far_too_long",
     "duration_long"}

\* C25: for a phoneme with a duration prior (min, max), a duration below
\* 0.7 * min costs 30, one in [0.7 * min, min) costs 20, one above
\* 1.5 * max costs 25, one in (max, 1.5 * max] costs 15, one in [min, max]
\* nothing; each tier appends exactly one issue, its own; a phoneme without
\* a prior gets no duration deduction and no duration issue.
C25_DurationTiers ==
    op = "score_phoneme_quality" =>
        LET d == args.duration
            prior == args.phoneme \in DOMAIN duration_thresholds
            min == duration_thresholds[args.phoneme][1]
            max == duration_thresholds[args.phoneme][2]
            tier == IF ~prior THEN <<0, "none">>
                    ELSE IF QLt(d, QMul(Q(7, 10), min)) THEN <<30, "duration_far_too_short">>
                    ELSE IF QLe(QMul(Q(7, 10), min), d) /\ QLt(d, min)
                    THEN <<20, "duration_short">>
                    ELSE IF QLt(QMul(Q(15, 10), max), d) THEN <<25, "duration_far_too_long">>
                    ELSE IF QLt(max, d) /\ QLe(d, QMul(Q(15, 10), max))
                    THEN <<15, "duration_long">>
                    ELSE <<0, "none">>
            issues == ret.value.issues
            timed == {i \in 1..Len(issues) : issues[i].kind \in DurationKinds}
        IN  /\ tier[1] = 0 => timed = {}
            /\ tier[1] > 0 =>
                 /\ Cardinality(timed) = 1
                 /\ \A i \in timed : issues[i] = [kind |-> tier[2], phoneme |-> args.phoneme]
            /\ args.features = NoFeatures =>
                 /\ ret.value.score = 80 - tier[1]
                 /\ Len(issues) = Cardinality(timed)

\* C25 witness: 's' lasting 10 ms, far below 0.7 * 0.08 s, without features:
\* one issue and 30 points off
C25_Witness ==
    /\ op = "score_phoneme_quality"
    /\ args.phoneme = "s"
    /\ args.duration = Q(1, 100)
    /\ args.features = NoFeatures
    /\ ret.value.score = 50
    /\ ret.value.issues = <<[kind |-> "duration_far_too_short", phoneme |-> "s"]>>

\* the symbols of the seven membership tables
TableSymbols ==
    {"ae", "ih", "uh", "ii", "uu", "er", "ah", "ai", "au", "oi", "e", "o", "aa",
     "f", "v", "s", "z", "sh", "zh", "th", "dh", "h",
     "p", "b", "t", "d", "k", "g", "ch", "dj", "m", "n", "ng", "l", "r", "w", "j"}

PhonemeCategories ==
    {"low_vowel", "high_vowel", "mid_vowel", "diphthong", "sibilant_fricative",
     "non_sibilant_fricative", "voiceless_stop", "voiced_stop", "affricate",
     "nasal", "liquid", "glide", "unknown"}

\* points one generic stability or energy issue costs
GenericDeduction(issue) ==
    CASE issue.kind = "unstable" -> 20
      [] issue.kind = "slightly_unstable" -> 10
      [] issue.kind = "energy_insufficient" -> 25
      [] issue.kind = "energy_low" -> 15
      [] OTHER -> 1000

\* C26: classify_phoneme_detailed gives every symbol one category; a symbol
\* outside the membership tables (a passed-through character, or the
\* lexicon symbols schwa, long o, ei, ou) is 'unknown', and for it only the
\* generic rules apply: no centroid rule, no secondary rule, and (having no
\* duration prior) no duration rule - the score is 80 less the stability
\* and energy deductions.
C26_UnknownOnlyGeneric ==
    op = "score_phoneme_quality" =>
        /\ classify_phoneme_detailed(args.phoneme) \in PhonemeCategories
        /\ args.phoneme \notin TableSymbols =>
             LET issues == ret.value.issues
             IN  /\ classify_phoneme_detailed(args.phoneme) = "unknown"
                 /\ Len(issues) <= 2
                 /\ \A i \in 1..Len(issues) :
                      /\ issues[i].kind \in {"unstable", "slightly_unstable",
                                             "energy_insufficient", "energy_low"}
                      /\ issues[i].phoneme = args.phoneme
                 /\ ret.value.score =
                        80 - (IF Len(issues) >= 1 THEN GenericDeduction(issues[1]) ELSE 0)
                           - (IF Len(issues) >= 2 THEN GenericDeduction(issues[2]) ELSE 0)
                 /\ ret.value = ret.baseline

\* C26 witness: schwa, weak and unstable, with a low centroid and a low
\* zero-crossing rate: the two generic issues only, score 35
C26_Witness ==
    /\ op = "score_phoneme_quality"
    /\ args.phoneme = "schwa"
    /\ args.features # NoFeatures
    /\ args.features.spectral_centroid_mean = QInt(500)
    /\ args.features.zcr_mean = Q(5, 100)
    /\ ret.value.score = 35
    /\ ret.value.issues = <<[kind |-> "unstable", phoneme |-> "schwa"],
                            [kind |-> "energy_insufficient", phoneme |-> "schwa"]>>

\* C27: every PhonemeScore of analyze_pronunciation_detailed has a score of
\* at most 80 and is never rated excellent; each weighted term (score *
\* confidence * quality weight) is at most 72, and so is overall_score;
\* neither final adjustment is taken: overall_score is the clamped value.
C27_ScoreCeilings ==
    (op = "analyze_pronunciation_detailed" /\ ret.outcome = "return"
        /\ ret.value.phoneme_scores # <<>>) =>
        LET scores == ret.value.phoneme_scores
            clamped == ClampedScore(scores, AllIssues(scores))
        IN  /\ \A i \in 1..Len(scores) :
                 /\ scores[i].score <= 80
                 /\ scores[i].quality # "excellent"
                 /\ QLe(QMul(QMul(QInt(scores[i].score), scores[i].confidence),
                             QualityWeight(scores[i].quality)),
                        QInt(72))
            /\ QLe(ret.value.overall_score, QInt(72))
            /\ QLe(clamped, QInt(75))
            /\ ret.value.overall_score = clamped

\* C27 witness: the two phonemes of "the" over one second, both scoring 80
\* with no issue; the overall score is the ceiling 72
C27_Witness ==
    /\ op = "analyze_pronunciation_detailed"
    /\ ret.outcome = "return"
    /\ args.audio_data.length = 16000
    /\ Len(ret.value.phoneme_scores) = 2
    /\ \A i \in 1..2 : /\ ret.value.phoneme_scores[i].score = 80
                       /\ ret.value.phoneme_scores[i].quality = "good"
    /\ ret.value.overall_score = QInt(72)

\* the lists of a word-to-phonemes dict, concatenated in word order
RECURSIVE MappedInOrder(_, _, _)
MappedInOrder(words, word_phoneme_mapping, k) ==
    IF k > Len(words) THEN <<>>
    ELSE word_phoneme_mapping[CleanWord(words[k])]
             \o MappedInOrder(words, word_phoneme_mapping, k + 1)

\* C28: the flat sequence text_to_phonemes returns for a text equals the
\* concatenation, in word order, of the lists map_words_to_phonemes returns
\* for its words: the two converters agree on every word.
C28_ConvertersAgree ==
    op = "analyze_word_pronunciation" =>
        text_to_phonemes(args.words)
            = MappedInOrder(args.words, args.word_phoneme_mapping, 1)

\* C29: along one call of analyze_word_pronunciation the cursor
\* current_phoneme_index never decreases; a re-synchronisation selects a
\* position within 2 places of the cursor; no position of the score list
\* is attributed to more than one expected phoneme.
C29_CursorForwardOnly ==
    op = "analyze_word_pronunciation" =>
        LET t == ret.cursor_trace
        IN  /\ \A i \in 1..Len(t) : t[i].after >= t[i].before
            /\ \A i \in 1..Len(t) :
                 t[i].found # <<>> =>
                     /\ t[i].found[1] - t[i].before <= 2
                     /\ t[i].before - t[i].found[1] <= 2
            /\ \A i \in 1..Len(t), j \in 1..Len(t) :
                 (i < j /\ t[i].found # <<>> /\ t[j].found # <<>>) =>
                     t[i].found[1] # t[j].found[1]

\* C30: the features score_phoneme_quality is given in the pipeline are the
\* output of extract_acoustic_features, which has no f1, energy_max or
\* voicing_rate; so the secondary rules for low vowels, high vowels, nasals
\* and voiceless and voiced stops never fire (only the sibilant
\* zero-crossing rule can), no phoneme has more than 5 issues and no
\* confidence is below 0.5.
C30_OnlySibilantSecondaryRule ==
    (op = "analyze_pronunciation_detailed" /\ ret.outcome = "return") =>
        LET scores == ret.value.phoneme_scores
        IN  /\ \A i \in 1..Len(args.segment_features) :
                 DOMAIN args.segment_features[i]
                     \cap {"f1", "energy_max", "voicing_rate"} = {}
            /\ \A i \in 1..Len(scores) :
                 /\ \A k \in 1..Len(scores[i].issues) :
                      scores[i].issues[k].kind \notin
                          {"low_vowel_opening", "high_vowel_tongue_low", "stop_burst_weak",
                           "voiced_stop_voicing_weak", "nasal_resonance_weak"}
                 /\ Len(scores[i].issues) <= 5
                 /\ QLe(Q(1, 2), scores[i].confidence)

\* C30 witness: a result in which an 's' carries five issues (the last one
\* of the zero-crossing rule) at confidence 0.5, beside a stop, a nasal or
\* a high vowel whose segment gave features
C30_Witness ==
    /\ op = "analyze_pronunciation_detailed"
    /\ ret.outcome = "return"
    /\ \E i \in 1..Len(ret.value.phoneme_scores) :
         LET ps == ret.value.phoneme_scores[i]
         IN  /\ ps.phoneme = "s"
             /\ Len(ps.issues) = 5
             /\ ps.issues[5].kind = "sibilant_friction_weak"
             /\ ps.confidence = Q(1, 2)
    /\ \E i \in 1..Len(ret.value.phoneme_scores) :
         /\ ret.value.phoneme_scores[i].phoneme \in {"t", "n", "ih"}
         /\ args.segment_features[i] # NoFeatures
====
